---- MODULE Spec2Model ----
(***************************************************************************)
(* Model of the trading core of the repository:                            *)
(*   - app/services/trading_engine.py  (TradingEngine: orders, trades,     *)
(*     balances, minimum-order scaling)                                    *)
(*   - app/services/scheduler.py       (TradingScheduler: periodic cycle,  *)
(*     risk pass, signal pass, execution log)                              *)
(* Python floats are modelled as exact rationals <<numerator, denominator>>*)
(* (denominator > 0, lowest terms); Optional[float] None is <<0, 0>>.      *)
(***************************************************************************)
EXTENDS Integers, Sequences, FiniteSets, TLC

VARIABLES
    orders,          \* table "orders": sequence of Order rows, id = index
    trades,          \* table "trades": sequence of Trade rows
    balances,        \* table "balances": coin -> Balance row (or absent)
    trading_enabled, \* settings.trading_enabled
    lastCall,        \* arguments and outcome of the latest engine invocation
    ncalls,          \* number of engine invocations so far
    nsubmits,        \* number of order submissions sent to the Gateway
    strategies,      \* table "trading_strategies" (joined with its owners)
    logs,            \* table "strategy_execution_logs"
    cycle,           \* worker thread -> position of its run_strategy_checks
    sched,           \* state of the BackgroundScheduler
    nticks,          \* number of interval-trigger firings so far
    missed,          \* number of firings skipped because an instance was running
    ohlcv,           \* the candle history api.get_ohlcv returns at present
    evaluation,      \* the latest evaluation of a strategy's signals
    backtest,        \* the latest run of Backtester.run_backtest
    search           \* the latest parameter search

vars == <<orders, trades, balances, trading_enabled, lastCall, ncalls,
          nsubmits, strategies, logs, cycle, sched, nticks, missed,
          ohlcv, evaluation, backtest, search>>

engineVars == <<orders, trades, balances, lastCall, ncalls, nsubmits>>
schedVars == <<strategies, logs, cycle, sched, nticks, missed>>
libVars == <<ohlcv, evaluation, backtest, search>>

-----------------------------------------------------------------------------
(* Bounds of the model *)

MaxCalls == 3
MaxTicks == 2
MaxStrategies == 3
MaxCandles == 5
MaxTrials == 3

-----------------------------------------------------------------------------
(* Exact arithmetic standing for Python float arithmetic *)

None == <<0, 0>>
IsNone(x) == x[2] = 0

Abs(x) == IF x < 0 THEN -x ELSE x

RECURSIVE GCD(_, _)
GCD(a, b) == IF b = 0 THEN a ELSE GCD(b, a % b)

Frac(n, d) ==
    LET s == IF d < 0 THEN -1 ELSE 1
        g == GCD(Abs(n), Abs(d))
    IN  <<(s * n) \div g, (s * d) \div g>>

Num(i) == <<i, 1>>
\* over the least common denominator, which keeps the intermediate products small
Add(a, b) ==
    LET g == GCD(a[2], b[2])
    IN  IF g = 0 THEN Frac(a[1] * b[2] + b[1] * a[2], a[2] * b[2])
        ELSE Frac(a[1] * (b[2] \div g) + b[1] * (a[2] \div g), (a[2] \div g) * b[2])
Neg(a) == <<-a[1], a[2]>>
Sub(a, b) == Add(a, Neg(b))
\* cancelling across the factors first, for the same reason
Mul(a, b) ==
    LET g == GCD(Abs(a[1]), b[2])
        h == GCD(Abs(b[1]), a[2])
    IN  IF g = 0 \/ h = 0 THEN Frac(a[1] * b[1], a[2] * b[2])
        ELSE Frac((a[1] \div g) * (b[1] \div h), (a[2] \div h) * (b[2] \div g))
Div(a, b) == Mul(a, Frac(b[2], b[1]))
Lt(a, b) == a[1] * b[2] < b[1] * a[2]
Le(a, b) == a[1] * b[2] <= b[1] * a[2]

\* Python truthiness of an Optional[float]: None and 0.0 are falsy
Truthy(x) == ~IsNone(x) /\ x[1] # 0
\* Python "x or 0"
OrZero(x) == IF Truthy(x) THEN x ELSE Num(0)

-----------------------------------------------------------------------------
(* Program constants and input domains *)

MIN_ORDER_AMOUNT_KRW == 5500
\* the literal 1.1 of "MIN_ORDER_AMOUNT_KRW * 1.1"
BufferFactor == <<11, 10>>
\* the literal 0.0005 of "order.total * 0.0005"
FeeRate == <<1, 2000>>

Coins == {"BTC"}
\* strategy ids handed to the engine by a direct caller
StrategyIds == {1}
\* requested amounts: 1 coin (below the minimum at small prices), 60 coins
Amounts == {Num(1), Num(60)}
\* prices the Gateway reports (get_current_price never returns 0: it maps a
\* falsy price to None)
Prices == {Num(6050)}
\* prices a caller may pass explicitly
ExplicitPrices == {Num(0), Num(100)}
\* <<explicit price, price the Gateway would report>>: the Gateway is asked
\* only when no explicit price is given
PricePairs ==
    {<<p, None>> : p \in ExplicitPrices} \cup {<<None, f>> : f \in Prices \cup {None}}

\* what api.buy_limit_order / sell_limit_order hand back
GatewayResults ==
    { [present |-> TRUE,  status |-> "0000", order_id |-> "uuid", message |-> "None"],
      [present |-> TRUE,  status |-> "5100", order_id |-> "None", message |-> "insufficient funds"],
      [present |-> TRUE,  status |-> "5100", order_id |-> "None", message |-> "None"],
      [present |-> FALSE, status |-> "None", order_id |-> "None", message |-> "None"] }

NoBalance ==
    [exists |-> FALSE, total |-> Num(0), available |-> Num(0),
     in_use |-> Num(0), avg_buy_price |-> None]

-----------------------------------------------------------------------------
(* TradingEngine *)

\* the three tables an engine call reads and writes
Db == [orders |-> orders, trades |-> trades, balances |-> balances]

OrderRow(order_type, coin, amount, price, total, status, order_id, strategy_id, error_message) ==
    [order_type |-> order_type, coin |-> coin, amount |-> amount, price |-> price,
     total |-> total, status |-> status, order_id |-> order_id,
     strategy_id |-> strategy_id, error_message |-> error_message]

\* db.add(order); db.commit()
AddOrder(db, order) == [db EXCEPT !.orders = Append(@, order)]

\* mutant: the adjustment forgets the 10% buffer
AdjustedAmount_noBuffer(amount, price) ==
    IF Lt(Mul(amount, price), Num(MIN_ORDER_AMOUNT_KRW))
    THEN Div(Num(MIN_ORDER_AMOUNT_KRW), price)
    ELSE amount

\* the amount after the minimum-order adjustment
AdjustedAmount(amount, price) ==
    IF Lt(Mul(amount, price), Num(MIN_ORDER_AMOUNT_KRW))
    THEN Div(Mul(Num(MIN_ORDER_AMOUNT_KRW), BufferFactor), price)
    ELSE amount

\* "(MIN_ORDER_AMOUNT_KRW * 1.1) / price" raises ZeroDivisionError
AdjustRaises(amount, price) ==
    Lt(Mul(amount, price), Num(MIN_ORDER_AMOUNT_KRW)) /\ price[1] = 0

\* result.get("message", "Unknown error") if result else "API call failed"
ErrorMsg(result) ==
    IF result.present
    THEN (IF result.message = "None" THEN "Unknown error" ELSE result.message)
    ELSE "API call failed"

\* result and result.get("status") == "0000"
IsSuccess(result) == result.present /\ result.status = "0000"

\* mutant: the profit is taken with the operands swapped
TradeProfit_swapped(order, balance) ==
    IF order.order_type = "sell" /\ balance.exists /\ Truthy(balance.avg_buy_price)
    THEN Mul(Sub(balance.avg_buy_price, order.price), order.amount)
    ELSE None

TradeProfit(order, balance) ==
    IF order.order_type = "sell" /\ balance.exists /\ Truthy(balance.avg_buy_price)
    THEN Mul(Sub(order.price, balance.avg_buy_price), order.amount)
    ELSE None

_create_trade_record(db, oid) ==
    LET order == db.orders[oid]
        trade == [order_id |-> oid, coin |-> order.coin, trade_type |-> order.order_type,
                  amount |-> order.amount, price |-> order.price, total |-> order.total,
                  fee |-> Mul(order.total, FeeRate),
                  profit |-> TradeProfit(order, db.balances[order.coin])]
    IN  [db EXCEPT !.trades = Append(@, trade)]

\* amount is signed: positive for a buy, negative for a sell
BalanceAfter(b0, amount, price) ==
    LET b == IF b0.exists THEN b0 ELSE [NoBalance EXCEPT !.exists = TRUE]
        newTotal == Add(b.total, amount)
    IN  IF Lt(Num(0), amount)
        THEN LET total_value == Add(Mul(b.total, OrZero(b.avg_buy_price)), Mul(amount, price))
             IN  [b EXCEPT !.total = newTotal,
                           !.available = newTotal,
                           !.avg_buy_price = IF Lt(Num(0), newTotal)
                                             THEN Div(total_value, newTotal)
                                             ELSE price]
        ELSE [b EXCEPT !.total = newTotal, !.available = newTotal]

_update_balance(db, coin, amount, price) ==
    [db EXCEPT !.balances[coin] = BalanceAfter(@, amount, price)]

\* outcome of an engine call: the tables, whether it raised, whether the
\* Gateway was sent an order, and the id of the Order row it returned
Outcome(db, raised, submitted, oid) ==
    [db |-> db, raised |-> raised, submitted |-> submitted, oid |-> oid]

\* mutant: after a failed price fetch the order is still sent to the Gateway
PriceFailure_submitted(db, side, coin, amount, strategy_id) ==
    Outcome(AddOrder(db, OrderRow(side, coin, amount, Num(0), Num(0), "failed",
                                  "None", strategy_id, "Failed to get current price")),
            FALSE, TRUE, Len(db.orders) + 1)

\* price is None and the Gateway reports no price: a failed Order, no submission
PriceFailure(db, side, coin, amount, strategy_id) ==
    Outcome(AddOrder(db, OrderRow(side, coin, amount, Num(0), Num(0), "failed",
                                  "None", strategy_id, "Failed to get current price")),
            FALSE, FALSE, Len(db.orders) + 1)

\* mutant: the success path forgets the Trade record
CompletedOrder_noTrade(db, side, coin, amount, price, total, result, strategy_id) ==
    LET oid == Len(db.orders) + 1
        sign == IF side = "buy" THEN Num(1) ELSE Num(-1)
        db1 == AddOrder(db, OrderRow(side, coin, amount, price, total, "completed",
                                     result.order_id, strategy_id, "None"))
        db3 == _update_balance(db1, coin, Mul(sign, amount), price)
    IN  Outcome(db3, FALSE, TRUE, oid)

\* the Gateway accepted the order: Order completed, Trade appended, Balance updated
CompletedOrder(db, side, coin, amount, price, total, result, strategy_id) ==
    LET oid == Len(db.orders) + 1
        sign == IF side = "buy" THEN Num(1) ELSE Num(-1)
        db1 == AddOrder(db, OrderRow(side, coin, amount, price, total, "completed",
                                     result.order_id, strategy_id, "None"))
        db2 == _create_trade_record(db1, oid)
        db3 == _update_balance(db2, coin, Mul(sign, amount), price)
    IN  Outcome(db3, FALSE, TRUE, oid)

\* mutant: the failure path still books the amount on the Balance
FailedOrder_booked(db, side, coin, amount, price, total, result, strategy_id) ==
    LET sign == IF side = "buy" THEN Num(1) ELSE Num(-1)
        db1 == AddOrder(db, OrderRow(side, coin, amount, price, total, "failed",
                                     "None", strategy_id, ErrorMsg(result)))
    IN  Outcome(_update_balance(db1, coin, Mul(sign, amount), price),
                FALSE, TRUE, Len(db.orders) + 1)

\* the Gateway refused the order or gave no usable response: Order failed
FailedOrder(db, side, coin, amount, price, total, result, strategy_id) ==
    Outcome(AddOrder(db, OrderRow(side, coin, amount, price, total, "failed",
                                  "None", strategy_id, ErrorMsg(result))),
            FALSE, TRUE, Len(db.orders) + 1)

\* mutant: with trading disabled the Order is written as failed
DisabledOrder_failed(db, side, coin, amount, price, total, strategy_id) ==
    Outcome(AddOrder(db, OrderRow(side, coin, amount, price, total, "failed",
                                  "None", strategy_id, "Trading is disabled")),
            FALSE, FALSE, Len(db.orders) + 1)

\* settings.trading_enabled is false: Order pending, nothing submitted
DisabledOrder(db, side, coin, amount, price, total, strategy_id) ==
    Outcome(AddOrder(db, OrderRow(side, coin, amount, price, total, "pending",
                                  "None", strategy_id, "Trading is disabled")),
            FALSE, FALSE, Len(db.orders) + 1)

\* the common body of execute_buy_order and execute_sell_order; the branch
\* "if price: limit order else: market order" always takes the limit order,
\* since a price of 0 has raised in the adjustment before it
ExecuteOrder(db, side, coin, amount0, price0, fetched, result, strategy_id) ==
    LET price == IF IsNone(price0) THEN fetched ELSE price0 IN
    IF IsNone(price)
    THEN PriceFailure(db, side, coin, amount0, strategy_id)
    ELSE IF AdjustRaises(amount0, price)
    THEN Outcome(db, TRUE, FALSE, 0)
    ELSE
    LET amount == AdjustedAmount(amount0, price)
        total == Mul(amount, price)
    IN  IF trading_enabled
        THEN IF IsSuccess(result)
             THEN CompletedOrder(db, side, coin, amount, price, total, result, strategy_id)
             ELSE FailedOrder(db, side, coin, amount, price, total, result, strategy_id)
        ELSE DisabledOrder(db, side, coin, amount, price, total, strategy_id)

execute_buy_order(db, coin, amount, price, fetched, result, strategy_id) ==
    ExecuteOrder(db, "buy", coin, amount, price, fetched, result, strategy_id)

execute_sell_order(db, coin, amount, price, fetched, result, strategy_id) ==
    ExecuteOrder(db, "sell", coin, amount, price, fetched, result, strategy_id)

NoCall ==
    [op |-> "none", coin |-> "BTC", amount |-> Num(0), price |-> None,
     result |-> CHOOSE r \in GatewayResults : ~r.present,
     raised |-> FALSE, submitted |-> FALSE, oid |-> 0]

\* the Gateway's response is recorded only when an order was submitted
CallRecord(op, coin, amount, price0, fetched, result, out) ==
    [op |-> op, coin |-> coin, amount |-> amount,
     price |-> IF IsNone(price0) THEN fetched ELSE price0,
     result |-> IF out.submitted THEN result ELSE NoCall.result,
     raised |-> out.raised, submitted |-> out.submitted,
     oid |-> out.oid]

\* the effect of one engine call on the engine's variables
EngineEffect(op, coin, amount, price0, fetched, result, out) ==
    /\ orders' = out.db.orders
    /\ trades' = out.db.trades
    /\ balances' = out.db.balances
    /\ lastCall' = CallRecord(op, coin, amount, price0, fetched, result, out)
    /\ ncalls' = ncalls + 1
    /\ nsubmits' = nsubmits + (IF out.submitted THEN 1 ELSE 0)

\* a caller invokes engine.execute_buy_order(coin, amount, price, strategy_id)
BuyOrder ==
    \E coin \in Coins, amount \in Amounts, pp \in PricePairs,
       result \in GatewayResults, sid \in StrategyIds :
        /\ ncalls < MaxCalls
        /\ EngineEffect("buy", coin, amount, pp[1], pp[2], result,
                        execute_buy_order(Db, coin, amount, pp[1], pp[2], result, sid))
        /\ UNCHANGED <<trading_enabled, schedVars>>
        /\ UNCHANGED libVars

\* a caller invokes engine.execute_sell_order(coin, amount, price, strategy_id)
SellOrder ==
    \E coin \in Coins, amount \in Amounts, pp \in PricePairs,
       result \in GatewayResults, sid \in StrategyIds :
        /\ ncalls < MaxCalls
        /\ EngineEffect("sell", coin, amount, pp[1], pp[2], result,
                        execute_sell_order(Db, coin, amount, pp[1], pp[2], result, sid))
        /\ UNCHANGED <<trading_enabled, schedVars>>
        /\ UNCHANGED libVars

-----------------------------------------------------------------------------
(* TradingScheduler *)

\* number of instances of one job the BackgroundScheduler runs at a time:
\* add_job is called without max_instances, which leaves the default
max_instances == 1

\* worker threads of the scheduler's executor
Workers == {1, 2}
\* what the latest iteration of the risk pass read from the Gateway: nothing
\* (made is false), or the balance and, when it got that far, the price
NoObservation ==
    [made |-> FALSE,
     balance_data |-> [total |-> Num(0), available |-> Num(0), avg_buy_price |-> None],
     current_price |-> None]
\* position of a run: the pass, the index into the enabled strategies, the
\* length of the log when it started, the strategies whose evaluation has
\* raised an exception in it, and the reading of its latest iteration
IdleCycle ==
    [phase |-> "idle", idx |-> 0, logStart |-> 0, raised |-> {},
     observed |-> NoObservation]

\* a row of "trading_strategies" together with its owner:
\*   owner      "ok" | "nocreds" (no API key or secret) | "nouser"
\*   parameters "object" (a JSON object) | "badjson" (json.loads fails)
\*              | "nonobject" (valid JSON that is no object, e.g. a list)
\*              | "badvalue" (a JSON object whose profit_target is a string,
\*                the field profit_target holding the number it spells)
\* the remaining fields are the values params.get(...) yields
StrategyRow(enabled, owner, parameters, strategy_type, profit_target, stop_loss, max_buy_amount) ==
    [coin |-> "BTC", enabled |-> enabled, owner |-> owner, parameters |-> parameters,
     strategy_type |-> strategy_type, profit_target |-> profit_target,
     stop_loss |-> stop_loss, trade_amount |-> Num(1),
     trade_amount_krw |-> Num(10000), max_buy_amount |-> max_buy_amount]

Risky == StrategyRow(TRUE, "ok", "object", "rsi", Num(10), Num(5), None)
Budgeted == StrategyRow(TRUE, "ok", "object", "rsi", None, None, Num(10000))
\* a budgeted strategy created when the price was 5000 (trade_amount =
\* trade_amount_krw / price = 2): at today's price its order is worth more
Drifted == [Budgeted EXCEPT !.trade_amount = Num(2)]
NoCreds == StrategyRow(TRUE, "nocreds", "object", "macd", Num(10), None, None)
NoUser == StrategyRow(TRUE, "nouser", "object", "macd", None, None, None)
BadJson == StrategyRow(TRUE, "ok", "badjson", "macd", None, None, None)
NonObject == StrategyRow(TRUE, "ok", "nonobject", "macd", None, None, None)
UnknownType == StrategyRow(TRUE, "ok", "object", "bogus", None, None, None)
Disabled == StrategyRow(FALSE, "ok", "object", "macd", None, None, None)
BadTarget == StrategyRow(TRUE, "ok", "badvalue", "rsi", Num(10), Num(5), None)

KnownTypes == {"moving_average", "bollinger", "rsi", "macd", "stochastic", "composite"}

\* contents of "trading_strategies": strategy id -> row
StrategyTables ==
    {<<NoCreds, NoUser, BadJson, NonObject, UnknownType, Disabled, live>> :
        live \in {Risky, Budgeted, Drifted, BadTarget}}

\* what api.get_balance(coin) reports: nothing held, or holdings with a cost
GatewayBalances ==
    { [total |-> Num(0), available |-> Num(0), avg_buy_price |-> None],
      [total |-> Num(2), available |-> Num(1), avg_buy_price |-> Num(5000)],
      [total |-> Num(2), available |-> Num(2), avg_buy_price |-> Num(7000)] }

\* prices api.get_current_price reports to the risk pass: the price the
\* engine is given, or a higher one
RiskPrices == Prices \cup {Num(7000)}

\* responses of BithumbAPI to the scheduler's order submissions: always a
\* dictionary, with a message whenever the status is not "0000"
SchedGatewayResults ==
    {r \in GatewayResults : r.present /\ (r.status = "0000" \/ r.message # "None")}

\* ids of the enabled strategies, in the order the query returns them
RECURSIVE EnabledFrom(_, _)
EnabledFrom(table, i) ==
    IF i > Len(table) THEN <<>>
    ELSE (IF table[i].enabled THEN <<i>> ELSE <<>>) \o EnabledFrom(table, i + 1)
EnabledList == EnabledFrom(strategies, 1)

LogRow(strategy_id, signal, executed, order_id, message, error) ==
    [strategy_id |-> strategy_id, signal |-> signal, executed |-> executed,
     order_id |-> order_id, message |-> message, error |-> error]

_log_execution(rows, strategy_id, signal, executed, order_id, message, error) ==
    Append(rows, LogRow(strategy_id, signal, executed, order_id, message, error))

\* workers inside run_strategy_checks; a worker whose run has returned is
\* "finished" and keeps the position record of that run
Running == {w \in Workers : cycle[w].phase \in {"risk", "signal"}}

\* mutant: the executor starts a run whatever is already running
CanStartInstance_unbounded(running) == TRUE

\* the executor accepts a run of the job only below max_instances
CanStartInstance(running) == running < max_instances

\* position after the strategy at index idx of a pass has been handled; after
\* the last strategy of the signal pass the run returns ("finally: db.close()")
Advance(c) ==
    IF c.idx < Len(EnabledList) THEN [c EXCEPT !.idx = c.idx + 1]
    ELSE IF c.phase = "risk" THEN [c EXCEPT !.phase = "signal", !.idx = 1]
    ELSE [c EXCEPT !.phase = "finished", !.idx = 0]

\* trading_scheduler.start()
Start ==
    /\ sched \in {"none", "stopped"}
    /\ sched' = "running"
    /\ UNCHANGED <<engineVars, trading_enabled, strategies, logs, cycle, nticks, missed>>
    /\ UNCHANGED libVars

\* trading_scheduler.stop() is called: scheduler.shutdown() takes no new run
StopBegin ==
    /\ sched = "running"
    /\ sched' = "stopping"
    /\ UNCHANGED <<engineVars, trading_enabled, strategies, logs, cycle, nticks, missed>>
    /\ UNCHANGED libVars

\* scheduler.shutdown() returns once the running job has finished
StopEnd ==
    /\ sched = "stopping"
    /\ Running = {}
    /\ sched' = "stopped"
    /\ UNCHANGED <<engineVars, trading_enabled, strategies, logs, cycle, nticks, missed>>
    /\ UNCHANGED libVars

\* the interval trigger fires and a free worker (the first one: which thread
\* of the pool runs the job makes no difference) starts run_strategy_checks;
\* with no enabled strategy both passes are empty and the run returns at once
Tick(w) ==
    /\ sched = "running"
    /\ nticks < MaxTicks
    /\ w \notin Running
    /\ \A v \in Workers \ Running : w <= v
    /\ CanStartInstance(Cardinality(Running))
    /\ cycle' = [cycle EXCEPT ![w] =
                   IF EnabledList = <<>>
                   THEN [phase |-> "finished", idx |-> 0, logStart |-> Len(logs),
                         raised |-> {}, observed |-> NoObservation]
                   ELSE [phase |-> "risk", idx |-> 1, logStart |-> Len(logs),
                         raised |-> {}, observed |-> NoObservation]]
    /\ nticks' = nticks + 1
    /\ UNCHANGED <<engineVars, trading_enabled, strategies, logs, sched, missed>>
    /\ UNCHANGED libVars

\* the interval trigger fires while the job is running: the run is skipped
TickSkipped ==
    /\ sched = "running"
    /\ nticks < MaxTicks
    /\ ~CanStartInstance(Cardinality(Running))
    /\ nticks' = nticks + 1
    /\ missed' = missed + 1
    /\ UNCHANGED <<engineVars, trading_enabled, strategies, logs, cycle, sched>>
    /\ UNCHANGED libVars

\* mutant: the risk pass knows no stop loss
RiskDecision_noStopLoss(s, balance_data, local, current_price) ==
    IF s.owner # "ok" THEN "skip"
    ELSE IF s.parameters = "badjson" THEN "skip"
    ELSE IF s.parameters = "nonobject" THEN "raise"
    ELSE IF ~Truthy(s.profit_target) /\ ~Truthy(s.stop_loss) THEN "skip"
    ELSE
    LET fromApi == Lt(Num(0), balance_data.total) /\ Truthy(balance_data.avg_buy_price)
        fromDb == local.exists /\ Lt(Num(0), local.total) /\ Truthy(local.avg_buy_price)
        avg == IF fromApi THEN balance_data.avg_buy_price ELSE local.avg_buy_price
    IN  IF ~fromApi /\ ~fromDb THEN "skip"
        ELSE IF ~Truthy(current_price) THEN "skip"
        ELSE LET pct == Mul(Div(Sub(current_price, avg), avg), Num(100))
             IN  IF Truthy(s.profit_target) /\ s.parameters = "badvalue"
                 THEN "raise"
                 ELSE IF Truthy(s.profit_target) /\ Le(s.profit_target, pct)
                 THEN "profit_target"
                 ELSE "skip"

\* the verdict of the risk pass on one strategy: "skip", "profit_target",
\* "stop_loss", or "raise" (an exception, which the pass catches and reports
\* to the application logger only): params.get on parameters that are no
\* object, and the comparison of the profit percentage with a string
RiskDecision(s, balance_data, local, current_price) ==
    IF s.owner # "ok" THEN "skip"
    ELSE IF s.parameters = "badjson" THEN "skip"
    ELSE IF s.parameters = "nonobject" THEN "raise"
    ELSE IF ~Truthy(s.profit_target) /\ ~Truthy(s.stop_loss) THEN "skip"
    ELSE
    LET fromApi == Lt(Num(0), balance_data.total) /\ Truthy(balance_data.avg_buy_price)
        fromDb == local.exists /\ Lt(Num(0), local.total) /\ Truthy(local.avg_buy_price)
        avg == IF fromApi THEN balance_data.avg_buy_price ELSE local.avg_buy_price
    IN  IF ~fromApi /\ ~fromDb THEN "skip"
        ELSE IF ~Truthy(current_price) THEN "skip"
        ELSE LET pct == Mul(Div(Sub(current_price, avg), avg), Num(100))
             IN  IF Truthy(s.profit_target) /\ s.parameters = "badvalue"
                 THEN "raise"
                 ELSE IF Truthy(s.profit_target) /\ Le(s.profit_target, pct)
                 THEN "profit_target"
                 ELSE IF Truthy(s.stop_loss) /\ Lt(Num(0), s.stop_loss)
                         /\ Le(pct, Neg(s.stop_loss))
                 THEN "stop_loss"
                 ELSE "skip"

\* mutant: every Order the engine returned is logged as executed
OrderLog_alwaysExecuted(rows, sid, signal, out, message) ==
    IF out.raised
    THEN _log_execution(rows, sid, signal, FALSE, 0, "None", "ZeroDivisionError")
    ELSE _log_execution(rows, sid, signal, TRUE, out.oid, message, "None")

\* the log row written after an engine call of the scheduler
OrderLog(rows, sid, signal, out, message) ==
    IF out.raised
    THEN _log_execution(rows, sid, signal, FALSE, 0, "None", "ZeroDivisionError")
    ELSE _log_execution(rows, sid, signal, out.db.orders[out.oid].status = "completed",
                        out.oid, message, "None")

\* the position of a run after an evaluation of strategy sid that raised (or
\* not) has been handled
Caught(c, sid, raised) ==
    Advance([c EXCEPT !.raised = IF raised THEN @ \cup {sid} ELSE @,
                      !.observed = NoObservation])

\* the risk pass asks the Gateway for the balance once it has found a
\* threshold in the parameters
ReadsBalance(s) ==
    /\ s.owner = "ok"
    /\ s.parameters \in {"object", "badvalue"}
    /\ Truthy(s.profit_target) \/ Truthy(s.stop_loss)

\* holdings and their average cost are known, from the Gateway or from the
\* local Balance row
KnowsCost(balance_data, local) ==
    \/ Lt(Num(0), balance_data.total) /\ Truthy(balance_data.avg_buy_price)
    \/ local.exists /\ Lt(Num(0), local.total) /\ Truthy(local.avg_buy_price)

\* what an iteration of the risk pass has read from the Gateway
Observation(s, balance_data, local, current_price) ==
    IF ~ReadsBalance(s) THEN NoObservation
    ELSE [made |-> TRUE, balance_data |-> balance_data,
          current_price |-> IF KnowsCost(balance_data, local) THEN current_price
                            ELSE None]

\* _execute_profit_target_sell: sell, then log
RiskSell(sid, coin, amount, reason, fetched, result) ==
    LET out == execute_sell_order(Db, coin, amount, None, fetched, result, sid)
    IN  /\ EngineEffect("sell", coin, amount, None, fetched, result, out)
        /\ logs' = OrderLog(logs, sid, "sell", out,
                            IF reason = "profit_target" THEN "Profit target sell order"
                                                        ELSE "Stop loss sell order")

\* one iteration of the loop of _check_profit_targets_and_stop_losses
RiskStep(w) ==
    /\ cycle[w].phase = "risk"
    /\ LET sid == EnabledList[cycle[w].idx]
           s == strategies[sid]
       IN  \E balance_data \in GatewayBalances, current_price \in RiskPrices \cup {None},
              fetched \in Prices \cup {None}, result \in SchedGatewayResults :
               LET reason == RiskDecision(s, balance_data, balances[s.coin], current_price)
                   seen == Observation(s, balance_data, balances[s.coin], current_price)
               IN  IF reason \in {"skip", "raise"}
                   THEN /\ UNCHANGED <<engineVars, logs>>
                        /\ cycle' = [cycle EXCEPT ![w] =
                                       [Caught(@, sid, reason = "raise")
                                          EXCEPT !.observed = seen]]
                   ELSE /\ RiskSell(sid, s.coin, balance_data.available, reason, fetched, result)
                        /\ cycle' = [cycle EXCEPT ![w] =
                                       [Caught(@, sid, lastCall'.raised)
                                          EXCEPT !.observed = seen]]
    /\ UNCHANGED <<trading_enabled, strategies, sched, nticks, missed>>
    /\ UNCHANGED libVars

\* sum of Order.total over the completed buy Orders of a strategy
RECURSIVE InvestedFrom(_, _, _)
InvestedFrom(rows, sid, i) ==
    IF i > Len(rows) THEN Num(0)
    ELSE Add(IF rows[i].strategy_id = sid /\ rows[i].order_type = "buy"
                /\ rows[i].status = "completed"
             THEN rows[i].total ELSE Num(0),
             InvestedFrom(rows, sid, i + 1))
total_invested(sid) == InvestedFrom(orders, sid, 1)

\* the buy would pass the max_buy_amount limit
OverBudget(sid, s) ==
    /\ Truthy(s.max_buy_amount)
    /\ Lt(Num(0), s.max_buy_amount)
    /\ Lt(s.max_buy_amount, Add(total_invested(sid), s.trade_amount_krw))

\* mutant: the owner's credentials are not looked at
StrategyGate_credsUnchecked(s) ==
    IF s.owner = "nouser" THEN "nolog"
    ELSE IF s.parameters = "badjson" THEN "nolog"
    ELSE IF s.strategy_type \notin KnownTypes THEN "nolog"
    ELSE IF s.parameters = "nonobject" THEN "raise"
    ELSE "signal"

\* what _execute_strategy does with one strategy before any signal is read:
\* "nolog" (return without a log row), "nocreds", "raise" (an exception that
\* run_strategy_checks catches and logs) or "signal"
StrategyGate(s) ==
    IF s.owner = "nouser" THEN "nolog"
    ELSE IF s.owner = "nocreds" THEN "nocreds"
    ELSE IF s.parameters = "badjson" THEN "nolog"
    ELSE IF s.strategy_type \notin KnownTypes THEN "nolog"
    ELSE IF s.parameters = "nonobject" THEN "raise"
    ELSE "signal"

\* one iteration of the loop of run_strategy_checks: _execute_strategy and
\* the except clause around it
SignalStep(w) ==
    /\ cycle[w].phase = "signal"
    /\ LET sid == EnabledList[cycle[w].idx]
           s == strategies[sid]
           gate == StrategyGate(s)
       IN  \E signal \in {"buy", "sell", "None"}, fetched \in Prices \cup {None},
              result \in SchedGatewayResults :
               IF gate = "nolog"
               THEN /\ UNCHANGED <<engineVars, logs>>
                    /\ cycle' = [cycle EXCEPT ![w] = Caught(@, sid, FALSE)]
               ELSE IF gate = "nocreds"
               THEN /\ logs' = _log_execution(logs, sid, "None", FALSE, 0, "None",
                                              "no API credentials configured")
                    /\ UNCHANGED engineVars
                    /\ cycle' = [cycle EXCEPT ![w] = Caught(@, sid, FALSE)]
               ELSE IF gate = "raise"
               THEN /\ logs' = _log_execution(logs, sid, "None", FALSE, 0, "None",
                                              "AttributeError")
                    /\ UNCHANGED engineVars
                    /\ cycle' = [cycle EXCEPT ![w] = Caught(@, sid, TRUE)]
               ELSE IF signal = "buy" /\ OverBudget(sid, s)
               THEN /\ logs' = _log_execution(logs, sid, "buy", FALSE, 0,
                                              "Buy order skipped: max buy amount limit reached",
                                              "None")
                    /\ UNCHANGED engineVars
                    /\ cycle' = [cycle EXCEPT ![w] = Caught(@, sid, FALSE)]
               ELSE IF signal = "buy"
               THEN LET out == execute_buy_order(Db, s.coin, s.trade_amount, None,
                                                 fetched, result, sid)
                    IN  /\ EngineEffect("buy", s.coin, s.trade_amount, None, fetched, result, out)
                        /\ logs' = OrderLog(logs, sid, "buy", out, "Buy order")
                        /\ cycle' = [cycle EXCEPT ![w] = Caught(@, sid, out.raised)]
               ELSE IF signal = "sell"
               THEN LET out == execute_sell_order(Db, s.coin, s.trade_amount, None,
                                                  fetched, result, sid)
                    IN  /\ EngineEffect("sell", s.coin, s.trade_amount, None, fetched, result, out)
                        /\ logs' = OrderLog(logs, sid, "sell", out, "Sell order")
                        /\ cycle' = [cycle EXCEPT ![w] = Caught(@, sid, out.raised)]
               ELSE /\ logs' = _log_execution(logs, sid, "None", FALSE, 0,
                                              "Strategy checked - no signal", "None")
                    /\ UNCHANGED engineVars
                    /\ cycle' = [cycle EXCEPT ![w] = Caught(@, sid, FALSE)]
    /\ UNCHANGED <<trading_enabled, strategies, sched, nticks, missed>>
    /\ UNCHANGED libVars

-----------------------------------------------------------------------------
(* Signal library (app/services/strategy.py) *)

\* a daily candle of the Gateway, low <= close <= high
Candles ==
    { [low |-> 1, close |-> 1, high |-> 2],
      [low |-> 1, close |-> 2, high |-> 3],
      [low |-> 2, close |-> 3, high |-> 3] }

\* api.get_ohlcv returned None
NoData == [present |-> FALSE, rows |-> <<>>]
\* api.get_ohlcv returned a DataFrame with these rows
DataFrame(rows) == [present |-> TRUE, rows |-> rows]

\* float("nan"): every comparison with it is false
NaN == <<0, 0>>
IsNaN(x) == x[2] = 0
FLt(a, b) == ~IsNaN(a) /\ ~IsNaN(b) /\ Lt(a, b)
FLe(a, b) == ~IsNaN(a) /\ ~IsNaN(b) /\ Le(a, b)
FGt(a, b) == FLt(b, a)
FGe(a, b) == FLe(b, a)

\* df[name] as a series of floats
Column(rows, name) == [i \in 1..Len(rows) |-> Num(rows[i][name])]

RECURSIVE SumOf(_, _, _)
SumOf(xs, a, b) == IF a > b THEN Num(0) ELSE Add(xs[a], SumOf(xs, a + 1, b))

\* series.rolling(window).mean() at position i: NaN until the window is
\* full, and NaN when the window holds a NaN
RollingMean(xs, window, i) ==
    IF i < window \/ (\E j \in (i - window + 1)..i : IsNaN(xs[j]))
    THEN NaN
    ELSE Div(SumOf(xs, i - window + 1, i), Num(window))

\* the square of series.rolling(window).std() at position i (sample
\* variance, NaN for a window of one)
RollingVar(xs, window, i) ==
    IF i < window \/ window < 2 \/ (\E j \in (i - window + 1)..i : IsNaN(xs[j]))
    THEN NaN
    ELSE LET m == RollingMean(xs, window, i)
             sq == [j \in 1..Len(xs) |-> Mul(Sub(xs[j], m), Sub(xs[j], m))]
         IN  Div(SumOf(sq, i - window + 1, i), Num(window - 1))

RECURSIVE RollingMin(_, _, _)
RollingMin(xs, a, b) ==
    IF a = b THEN xs[a]
    ELSE LET r == RollingMin(xs, a + 1, b) IN IF Lt(xs[a], r) THEN xs[a] ELSE r

RECURSIVE RollingMax(_, _, _)
RollingMax(xs, a, b) ==
    IF a = b THEN xs[a]
    ELSE LET r == RollingMax(xs, a + 1, b) IN IF Lt(r, xs[a]) THEN xs[a] ELSE r

\* series.ewm(span=span, adjust=False).mean() at position i
RECURSIVE Ewm(_, _, _)
Ewm(xs, span, i) ==
    LET alpha == Frac(2, span + 1)
    IN  IF i = 1 THEN xs[1]
        ELSE Add(Mul(Sub(Num(1), alpha), Ewm(xs, span, i - 1)), Mul(alpha, xs[i]))

\* what a calculation hands to should_buy / should_sell: None, or values
Nothing == [ok |-> FALSE]
\* "try: ... except Exception: return None" around a calculation that may
\* raise
Try(outcome) == IF outcome.raised THEN Nothing ELSE outcome.values
Raises == [raised |-> TRUE]
Returns(values) == [raised |-> FALSE, values |-> values]

\* mutant: the crossover is read off the two latest averages only
_get_moving_averages_flat(st, df) ==
    IF ~df.present \/ Len(df.rows) < st.long_period THEN Nothing
    ELSE LET close == Column(df.rows, "close")
             n == Len(df.rows)
         IN  [ok |-> TRUE,
              short_ma |-> RollingMean(close, st.short_period, n),
              long_ma |-> RollingMean(close, st.long_period, n),
              prev_short_ma |-> Num(0),
              prev_long_ma |-> Num(0)]

\* MovingAverageStrategy._get_moving_averages; iloc[-2] of a series of one
\* row raises IndexError
_get_moving_averages(st, df) ==
    Try(IF ~df.present \/ Len(df.rows) < st.long_period THEN Returns(Nothing)
        ELSE IF Len(df.rows) < 2 THEN Raises
        ELSE LET close == Column(df.rows, "close")
                 n == Len(df.rows)
             IN  Returns([ok |-> TRUE,
                          short_ma |-> RollingMean(close, st.short_period, n),
                          long_ma |-> RollingMean(close, st.long_period, n),
                          prev_short_ma |-> RollingMean(close, st.short_period, n - 1),
                          prev_long_ma |-> RollingMean(close, st.long_period, n - 1)]))

MovingAverageStrategy_should_buy(st, df) ==
    LET mas == _get_moving_averages(st, df)
    IN  IF ~mas.ok THEN FALSE
        ELSE FLe(mas.prev_short_ma, mas.prev_long_ma) /\ FGt(mas.short_ma, mas.long_ma)

MovingAverageStrategy_should_sell(st, df) ==
    LET mas == _get_moving_averages(st, df)
    IN  IF ~mas.ok THEN FALSE
        ELSE FGe(mas.prev_short_ma, mas.prev_long_ma) /\ FLt(mas.short_ma, mas.long_ma)

\* the RSI of the latest row: 100 - 100 / (1 + avg_gains / avg_losses), where
\* x / 0.0 is inf for x > 0 (RSI 100) and NaN for x = 0
RsiValue(st, rows) ==
    LET close == Column(rows, "close")
        n == Len(rows)
        delta == [i \in 1..n |-> IF i = 1 THEN NaN ELSE Sub(close[i], close[i - 1])]
        gains == [i \in 1..n |-> IF FGt(delta[i], Num(0)) THEN delta[i] ELSE Num(0)]
        losses == [i \in 1..n |-> IF FLt(delta[i], Num(0)) THEN Neg(delta[i]) ELSE Num(0)]
        avg_gains == RollingMean(gains, st.period, n)
        avg_losses == RollingMean(losses, st.period, n)
    IN  IF IsNaN(avg_gains) \/ IsNaN(avg_losses) THEN NaN
        ELSE IF avg_losses = Num(0)
        THEN (IF avg_gains = Num(0) THEN NaN ELSE Num(100))
        ELSE Sub(Num(100), Div(Num(100), Add(Num(1), Div(avg_gains, avg_losses))))

\* mutant: the RSI is calculated from one row less
_calculate_rsi_short(st, df) ==
    IF ~df.present \/ Len(df.rows) < st.period THEN Nothing
    ELSE [ok |-> TRUE, rsi |-> RsiValue(st, df.rows)]

\* RSIStrategy._calculate_rsi
_calculate_rsi(st, df) ==
    Try(IF ~df.present \/ Len(df.rows) < st.period + 1 THEN Returns(Nothing)
        ELSE Returns([ok |-> TRUE, rsi |-> RsiValue(st, df.rows)]))

RSIStrategy_should_buy(st, df) ==
    LET r == _calculate_rsi(st, df)
    IN  IF ~r.ok THEN FALSE ELSE FLt(r.rsi, Num(st.oversold))

RSIStrategy_should_sell(st, df) ==
    LET r == _calculate_rsi(st, df)
    IN  IF ~r.ok THEN FALSE ELSE FGt(r.rsi, Num(st.overbought))

\* BollingerBandStrategy._calculate_bollinger_bands; the bands
\* middle -/+ std_dev x std are kept as the middle band and the variance
_calculate_bollinger_bands(st, df) ==
    Try(IF ~df.present \/ Len(df.rows) < st.period + 1 THEN Returns(Nothing)
        ELSE LET close == Column(df.rows, "close")
                 n == Len(df.rows)
             IN  Returns([ok |-> TRUE,
                          current_price |-> close[n],
                          prev_price |-> close[n - 1],
                          middle_band |-> RollingMean(close, st.period, n),
                          variance |-> RollingVar(close, st.period, n),
                          prev_middle_band |-> RollingMean(close, st.period, n - 1),
                          prev_variance |-> RollingVar(close, st.period, n - 1)]))

\* price < middle - k x sqrt(variance), for k >= 0
BelowLowerBand(price, middle, variance, k) ==
    /\ ~IsNaN(middle) /\ ~IsNaN(variance)
    /\ Lt(price, middle)
    /\ Lt(Mul(Mul(k, k), variance), Mul(Sub(middle, price), Sub(middle, price)))

\* price > middle + k x sqrt(variance), for k >= 0
AboveUpperBand(price, middle, variance, k) ==
    /\ ~IsNaN(middle) /\ ~IsNaN(variance)
    /\ Lt(middle, price)
    /\ Lt(Mul(Mul(k, k), variance), Mul(Sub(price, middle), Sub(price, middle)))

BollingerBandStrategy_should_buy(st, df) ==
    LET bb == _calculate_bollinger_bands(st, df)
    IN  IF ~bb.ok THEN FALSE
        ELSE /\ BelowLowerBand(bb.prev_price, bb.prev_middle_band, bb.prev_variance, st.std_dev)
             /\ ~IsNaN(bb.middle_band) /\ ~IsNaN(bb.variance)
             /\ ~BelowLowerBand(bb.current_price, bb.middle_band, bb.variance, st.std_dev)

BollingerBandStrategy_should_sell(st, df) ==
    LET bb == _calculate_bollinger_bands(st, df)
    IN  IF ~bb.ok THEN FALSE
        ELSE /\ AboveUpperBand(bb.prev_price, bb.prev_middle_band, bb.prev_variance, st.std_dev)
             /\ ~IsNaN(bb.middle_band) /\ ~IsNaN(bb.variance)
             /\ ~AboveUpperBand(bb.current_price, bb.middle_band, bb.variance, st.std_dev)

\* MACDStrategy._calculate_macd
_calculate_macd(st, df) ==
    Try(IF ~df.present \/ Len(df.rows) < st.slow_period + st.signal_period
        THEN Returns(Nothing)
        ELSE IF Len(df.rows) < 2 THEN Raises
        ELSE LET close == Column(df.rows, "close")
                 n == Len(df.rows)
                 macd_line == [i \in 1..n |-> Sub(Ewm(close, st.fast_period, i),
                                                  Ewm(close, st.slow_period, i))]
             IN  Returns([ok |-> TRUE,
                          macd |-> macd_line[n],
                          signal |-> Ewm(macd_line, st.signal_period, n),
                          prev_macd |-> macd_line[n - 1],
                          prev_signal |-> Ewm(macd_line, st.signal_period, n - 1)]))

MACDStrategy_should_buy(st, df) ==
    LET macd == _calculate_macd(st, df)
    IN  IF ~macd.ok THEN FALSE
        ELSE FLe(macd.prev_macd, macd.prev_signal) /\ FGt(macd.macd, macd.signal)

MACDStrategy_should_sell(st, df) ==
    LET macd == _calculate_macd(st, df)
    IN  IF ~macd.ok THEN FALSE
        ELSE FGe(macd.prev_macd, macd.prev_signal) /\ FLt(macd.macd, macd.signal)

\* %K of row i: NaN until the window is full and when the window's high
\* equals its low (0 / 0, the close lying between the two)
KPercent(rows, k_period, i) ==
    IF i < k_period THEN NaN
    ELSE LET lowest_low == RollingMin(Column(rows, "low"), i - k_period + 1, i)
             highest_high == RollingMax(Column(rows, "high"), i - k_period + 1, i)
         IN  IF highest_high = lowest_low THEN NaN
             ELSE Div(Mul(Num(100), Sub(Num(rows[i].close), lowest_low)),
                      Sub(highest_high, lowest_low))

\* StochasticStrategy._calculate_stochastic
_calculate_stochastic(st, df) ==
    Try(IF ~df.present \/ Len(df.rows) < st.k_period + st.d_period THEN Returns(Nothing)
        ELSE IF Len(df.rows) < 2 THEN Raises
        ELSE LET n == Len(df.rows)
                 k_percent == [i \in 1..n |-> KPercent(df.rows, st.k_period, i)]
             IN  Returns([ok |-> TRUE,
                          k |-> k_percent[n],
                          d |-> RollingMean(k_percent, st.d_period, n),
                          prev_k |-> k_percent[n - 1],
                          prev_d |-> RollingMean(k_percent, st.d_period, n - 1)]))

StochasticStrategy_should_buy(st, df) ==
    LET stoch == _calculate_stochastic(st, df)
    IN  IF ~stoch.ok THEN FALSE
        ELSE /\ FLt(stoch.k, Num(st.oversold))
             /\ FLe(stoch.prev_k, stoch.prev_d) /\ FGt(stoch.k, stoch.d)

StochasticStrategy_should_sell(st, df) ==
    LET stoch == _calculate_stochastic(st, df)
    IN  IF ~stoch.ok THEN FALSE
        ELSE /\ FGt(stoch.k, Num(st.overbought))
             /\ FGe(stoch.prev_k, stoch.prev_d) /\ FLt(stoch.k, stoch.d)

\* strategy.should_buy(coin), the candles being what the Gateway returns
should_buy(st, df) ==
    CASE st.kind = "moving_average" -> MovingAverageStrategy_should_buy(st, df)
      [] st.kind = "rsi" -> RSIStrategy_should_buy(st, df)
      [] st.kind = "bollinger" -> BollingerBandStrategy_should_buy(st, df)
      [] st.kind = "macd" -> MACDStrategy_should_buy(st, df)
      [] st.kind = "stochastic" -> StochasticStrategy_should_buy(st, df)

\* strategy.should_sell(coin)
should_sell(st, df) ==
    CASE st.kind = "moving_average" -> MovingAverageStrategy_should_sell(st, df)
      [] st.kind = "rsi" -> RSIStrategy_should_sell(st, df)
      [] st.kind = "bollinger" -> BollingerBandStrategy_should_sell(st, df)
      [] st.kind = "macd" -> MACDStrategy_should_sell(st, df)
      [] st.kind = "stochastic" -> StochasticStrategy_should_sell(st, df)

\* the strategy objects evaluated: small periods, so that short histories
\* reach every branch
MovingAverage(short_period, long_period) ==
    [kind |-> "moving_average", short_period |-> short_period, long_period |-> long_period]
Strategies ==
    { MovingAverage(1, 2), MovingAverage(2, 3),
      [kind |-> "rsi", period |-> 2, oversold |-> 30, overbought |-> 70],
      [kind |-> "bollinger", period |-> 3, std_dev |-> Num(1)],
      [kind |-> "macd", fast_period |-> 1, slow_period |-> 2, signal_period |-> 2],
      [kind |-> "stochastic", k_period |-> 2, d_period |-> 2, oversold |-> 60,
       overbought |-> 40] }

NoEvaluation ==
    [strategy |-> [kind |-> "none"], df |-> NoData, buy |-> FALSE, sell |-> FALSE]

\* a day passes: the Gateway's history gains a candle
NewCandle ==
    \E c \in Candles :
        /\ ohlcv.present
        /\ Len(ohlcv.rows) < MaxCandles
        /\ ohlcv' = DataFrame(Append(ohlcv.rows, c))
        /\ UNCHANGED <<engineVars, trading_enabled, schedVars, evaluation, backtest, search>>

\* a caller asks a strategy object for its signals
EvaluateSignals ==
    \E st \in Strategies :
        /\ evaluation' = [strategy |-> st, df |-> ohlcv,
                          buy |-> should_buy(st, ohlcv),
                          sell |-> should_sell(st, ohlcv)]
        /\ UNCHANGED <<engineVars, trading_enabled, schedVars, ohlcv, backtest, search>>

-----------------------------------------------------------------------------
(* Backtester (app/services/backtesting.py) *)

\* a result object whose trades list is shared by every instance
BacktestResult_shared ==
    [trades |-> backtest.result.trades, initial_balance |-> Num(0),
     final_balance |-> Num(0), total_return |-> Num(0), total_return_pct |-> Num(0),
     total_trades |-> 0, winning_trades |-> 0, losing_trades |-> 0,
     win_rate |-> Num(0), max_drawdown |-> Num(0), sharpe_ratio |-> Num(0),
     equity_curve |-> <<>>, start_date |-> 0, end_date |-> 0]

\* BacktestResult(): the fields of a new result object.  A date is the
\* position of its candle in the Gateway's history, 0 for None.
\* sharpe_ratio holds sign(x) * x^2 for Python's value x, which keeps its
\* order and equality and is rational.
BacktestResult ==
    [trades |-> <<>>, initial_balance |-> Num(0), final_balance |-> Num(0),
     total_return |-> Num(0), total_return_pct |-> Num(0), total_trades |-> 0,
     winning_trades |-> 0, losing_trades |-> 0, win_rate |-> Num(0),
     max_drawdown |-> Num(0), sharpe_ratio |-> Num(0), equity_curve |-> <<>>,
     start_date |-> 0, end_date |-> 0]

\* pd.Series(equity_curve).pct_change().dropna()
PctChange(curve) ==
    [i \in 1..(Len(curve) - 1) |-> Sub(Div(curve[i + 1], curve[i]), Num(1))]

\* the peak and the largest drawdown after the first n values of the curve
RECURSIVE Drawdown(_, _)
Drawdown(curve, n) ==
    IF n = 0 THEN [peak |-> curve[1], max_dd |-> Num(0)]
    ELSE LET before == Drawdown(curve, n - 1)
             value == curve[n]
             peak == IF Lt(before.peak, value) THEN value ELSE before.peak
             dd == IF Lt(Num(0), peak) THEN Div(Sub(peak, value), peak) ELSE Num(0)
         IN  [peak |-> peak,
              max_dd |-> IF Lt(before.max_dd, dd) THEN dd ELSE before.max_dd]

\* (returns.mean() / returns.std()) * np.sqrt(252), as sign(x) * x^2;
\* std() of a single return is NaN, and NaN > 0 is false
SharpeRatio(result) ==
    LET returns == PctChange(result.equity_curve)
        n == Len(returns)
        mean == Div(SumOf(returns, 1, n), Num(n))
        sq == [i \in 1..n |-> Mul(Sub(returns[i], mean), Sub(returns[i], mean))]
        var == Div(SumOf(sq, 1, n), Num(n - 1))
        square == Div(Mul(Mul(mean, mean), Num(252)), var)
    IN  IF Len(result.equity_curve) > 1 /\ n > 1 /\ Lt(Num(0), var)
        THEN IF Lt(mean, Num(0)) THEN Neg(square) ELSE square
        ELSE result.sharpe_ratio

calculate_metrics(result) ==
    IF result.trades = <<>> THEN result
    ELSE [result EXCEPT
            !.win_rate =
                IF result.total_trades > 0
                THEN Mul(Frac(result.winning_trades, result.total_trades), Num(100))
                ELSE @,
            !.max_drawdown =
                IF result.equity_curve # <<>>
                THEN Mul(Drawdown(result.equity_curve, Len(result.equity_curve)).max_dd,
                         Num(100))
                ELSE @,
            !.sharpe_ratio = SharpeRatio(result)]

\* df.tail(days)
tail(rows, days) ==
    IF Len(rows) <= days THEN rows ELSE SubSeq(rows, Len(rows) - days + 1, Len(rows))

\* max(short_period or 0, period or 0) + 1: the candles skipped at the start
WarmUp(strategy) ==
    LET short == IF "short_period" \in DOMAIN strategy THEN strategy.short_period ELSE 0
        period == IF "period" \in DOMAIN strategy THEN strategy.period ELSE 0
    IN  (IF short > period THEN short ELSE period) + 1

NoPosition == [open |-> FALSE]

\* mutant: a buy signal buys whether or not a position is open
SimulateCandle_pyramiding(s, i, df, first, buy, sell, strategy, trade_amount_pct, fee_rate) ==
    LET current_date == first + i
        current_price == Num(df[i + 1].close)
        equity == Add(s.krw_balance, Mul(s.coin_balance, current_price))
        seen == [s EXCEPT !.equity_values = Append(@, equity)]
    IN  IF i < WarmUp(strategy) THEN seen
        ELSE IF buy /\ Lt(Num(0), s.krw_balance) THEN
            LET trade_amount_krw == Mul(s.krw_balance, Div(trade_amount_pct, Num(100)))
                fee == Mul(trade_amount_krw, fee_rate)
                coin_amount == Div(Sub(trade_amount_krw, fee), current_price)
            IN  [seen EXCEPT
                   !.coin_balance = Add(@, coin_amount),
                   !.krw_balance = Sub(@, trade_amount_krw),
                   !.position = [open |-> TRUE, type |-> "buy", price |-> current_price,
                                 amount |-> coin_amount, date |-> current_date,
                                 fee |-> fee],
                   !.result.trades =
                       Append(@, [date |-> current_date, type |-> "buy",
                                  price |-> current_price, amount |-> coin_amount,
                                  total |-> trade_amount_krw, fee |-> fee])]
        ELSE IF sell /\ s.position.open /\ Lt(Num(0), s.coin_balance) THEN
            LET trade_amount_coin == s.coin_balance
                trade_amount_krw == Mul(trade_amount_coin, current_price)
                fee == Mul(trade_amount_krw, fee_rate)
                net_amount == Sub(trade_amount_krw, fee)
                buy_price == s.position.price
                profit == Sub(Sub(Mul(Sub(current_price, buy_price), trade_amount_coin),
                                  s.position.fee), fee)
                profit_pct == Mul(Div(Sub(current_price, buy_price), buy_price), Num(100))
            IN  [seen EXCEPT
                   !.krw_balance = Add(@, net_amount),
                   !.coin_balance = Num(0),
                   !.position = NoPosition,
                   !.result.winning_trades = IF Lt(Num(0), profit) THEN @ + 1 ELSE @,
                   !.result.losing_trades = IF Lt(Num(0), profit) THEN @ ELSE @ + 1,
                   !.result.trades =
                       Append(@, [date |-> current_date, type |-> "sell",
                                  price |-> current_price, amount |-> trade_amount_coin,
                                  total |-> trade_amount_krw, fee |-> fee,
                                  profit |-> profit, profit_pct |-> profit_pct,
                                  buy_price |-> buy_price])]
        ELSE seen

\* one pass of the simulation loop, at candle i (from 0) of the window
SimulateCandle(s, i, df, first, buy, sell, strategy, trade_amount_pct, fee_rate) ==
    LET current_date == first + i
        current_price == Num(df[i + 1].close)
        equity == Add(s.krw_balance, Mul(s.coin_balance, current_price))
        seen == [s EXCEPT !.equity_values = Append(@, equity)]
    IN  IF i < WarmUp(strategy) THEN seen
        ELSE IF buy /\ ~s.position.open /\ Lt(Num(0), s.krw_balance) THEN
            LET trade_amount_krw == Mul(s.krw_balance, Div(trade_amount_pct, Num(100)))
                fee == Mul(trade_amount_krw, fee_rate)
                coin_amount == Div(Sub(trade_amount_krw, fee), current_price)
            IN  [seen EXCEPT
                   !.coin_balance = Add(@, coin_amount),
                   !.krw_balance = Sub(@, trade_amount_krw),
                   !.position = [open |-> TRUE, type |-> "buy", price |-> current_price,
                                 amount |-> coin_amount, date |-> current_date,
                                 fee |-> fee],
                   !.result.trades =
                       Append(@, [date |-> current_date, type |-> "buy",
                                  price |-> current_price, amount |-> coin_amount,
                                  total |-> trade_amount_krw, fee |-> fee])]
        ELSE IF sell /\ s.position.open /\ Lt(Num(0), s.coin_balance) THEN
            LET trade_amount_coin == s.coin_balance
                trade_amount_krw == Mul(trade_amount_coin, current_price)
                fee == Mul(trade_amount_krw, fee_rate)
                net_amount == Sub(trade_amount_krw, fee)
                buy_price == s.position.price
                profit == Sub(Sub(Mul(Sub(current_price, buy_price), trade_amount_coin),
                                  s.position.fee), fee)
                profit_pct == Mul(Div(Sub(current_price, buy_price), buy_price), Num(100))
            IN  [seen EXCEPT
                   !.krw_balance = Add(@, net_amount),
                   !.coin_balance = Num(0),
                   !.position = NoPosition,
                   !.result.winning_trades = IF Lt(Num(0), profit) THEN @ + 1 ELSE @,
                   !.result.losing_trades = IF Lt(Num(0), profit) THEN @ ELSE @ + 1,
                   !.result.trades =
                       Append(@, [date |-> current_date, type |-> "sell",
                                  price |-> current_price, amount |-> trade_amount_coin,
                                  total |-> trade_amount_krw, fee |-> fee,
                                  profit |-> profit, profit_pct |-> profit_pct,
                                  buy_price |-> buy_price])]
        ELSE seen

\* for i in range(len(df)), from candle i on
RECURSIVE Simulate(_, _, _, _, _, _, _, _, _)
Simulate(s, i, df, first, buy, sell, strategy, trade_amount_pct, fee_rate) ==
    IF i >= Len(df) THEN s
    ELSE Simulate(SimulateCandle(s, i, df, first, buy, sell, strategy,
                                 trade_amount_pct, fee_rate),
                  i + 1, df, first, buy, sell, strategy, trade_amount_pct, fee_rate)

\* the end of run_backtest: the totals of the simulated portfolio, and the
\* metrics
Settle(end, final_price, initial_balance) ==
    LET final_balance == Add(end.krw_balance, Mul(end.coin_balance, final_price))
        total_return == Sub(final_balance, initial_balance)
    IN  calculate_metrics(
            [end.result EXCEPT
               !.final_balance = final_balance,
               !.total_return = total_return,
               !.total_return_pct = Mul(Div(total_return, initial_balance), Num(100)),
               !.total_trades =
                   Cardinality({k \in 1..Len(end.result.trades) :
                                  end.result.trades[k].type = "sell"}),
               !.equity_curve = end.equity_values])

\* Backtester.run_backtest; history is what api.get_ohlcv returns, to the
\* backtester and to the strategy alike
run_backtest(strategy, history, initial_balance, trade_amount_pct, days, fee_rate) ==
    LET result == [BacktestResult EXCEPT !.initial_balance = initial_balance]
    IN  IF ~history.present \/ Len(history.rows) = 0 THEN result
        ELSE
            LET df == tail(history.rows, days)
                first == Len(history.rows) - Len(df) + 1
                start == [krw_balance |-> initial_balance, coin_balance |-> Num(0),
                          position |-> NoPosition, equity_values |-> <<>>,
                          result |-> [result EXCEPT !.start_date = first,
                                                    !.end_date = Len(history.rows)]]
            IN  Settle(Simulate(start, 0, df, first, should_buy(strategy, history),
                                should_sell(strategy, history), strategy,
                                trade_amount_pct, fee_rate),
                       Num(df[Len(df)].close), initial_balance)

\* the strategy objects backtested.  The built-in strategies never answer
\* buy and sell on the same candles, unless the thresholds are passed the
\* other way round (the constructors do not validate them): the RSI strategy
\* below does, which is the only way for a run to reach its sell branch.
BacktestStrategies ==
    { MovingAverage(1, 2),
      [kind |-> "rsi", period |-> 2, oversold |-> 70, overbought |-> 30],
      [kind |-> "stochastic", k_period |-> 2, d_period |-> 2, oversold |-> 60,
       overbought |-> 40] }

\* the arguments a caller passes to run_backtest
BacktestInputs ==
    [strategy : BacktestStrategies,
     initial_balance : {Num(100)},
     trade_amount_pct : {Num(50)}, days : {3, 30},
     fee_rate : {<<1, 4>>}]

\* no backtest has run yet
NoBacktest ==
    [ran |-> FALSE, inputs |-> [strategy |-> [kind |-> "none"]], history |-> NoData,
     result |-> [trades |-> <<>>], repeated |-> FALSE, previous |-> [trades |-> <<>>]]

\* a caller runs a backtest; the model remembers the result of the run
\* before when that one had the same arguments and the same history
RunBacktest ==
    \E inputs \in BacktestInputs :
        LET repeated == /\ backtest.ran
                        /\ backtest.inputs = inputs
                        /\ backtest.history = ohlcv
        IN  /\ backtest' =
                  [ran |-> TRUE, inputs |-> inputs, history |-> ohlcv,
                   result |-> run_backtest(inputs.strategy, ohlcv, inputs.initial_balance,
                                           inputs.trade_amount_pct, inputs.days,
                                           inputs.fee_rate),
                   repeated |-> repeated,
                   previous |-> IF repeated THEN backtest.result ELSE [trades |-> <<>>]]
            /\ UNCHANGED <<engineVars, trading_enabled, schedVars, ohlcv, evaluation, search>>

-----------------------------------------------------------------------------
(* Parameter search (app/services/backtesting.py: optimize_parameters;
   app/services/parameter_optimizer.py: ParameterOptimizer) *)

\* the values of the searched parameter; a candidate is one of them
Periods == {7, 14, 28}

\* what the backtest of a candidate comes to: an exception, or a
\* BacktestResult, of which the search reads the fields below.  The scores
\* are whole numbers here.
Raising == [raises |-> TRUE]
Result(total_return_pct, sharpe_ratio, total_trades) ==
    [raises |-> FALSE, total_return_pct |-> total_return_pct,
     sharpe_ratio |-> sharpe_ratio, total_trades |-> total_trades]
\* no trade; a loss with a good ratio; a gain; a gain with few trades
BacktestOutcomes ==
    {Raising, Result(0, 0, 0), Result(-20, 3, 5), Result(10, 1, 7), Result(5, 2, 4)}

\* no search has run yet
NoSearch == [kind |-> "none", phase |-> "returned"]

\* the fixed score of a trial that failed or traded too little
Penalty == -10

\* ParameterOptimizer._calculate_metrics
_calculate_metrics(backtest_result) ==
    [total_return |-> backtest_result.total_return_pct,
     sharpe_ratio |-> IF backtest_result.sharpe_ratio # 0
                      THEN backtest_result.sharpe_ratio ELSE Penalty,
     num_trades |-> backtest_result.total_trades]

\* ParameterOptimizer._run_backtest: the metrics of the candidate's backtest,
\* or the exception it raised
_run_backtest(backtests, params) ==
    IF backtests[params.period].raises THEN Raising
    ELSE [raises |-> FALSE, performance |-> _calculate_metrics(backtests[params.period])]

\* mutant: the objective is the Sharpe ratio whatever the number of trades
_objective_noPenalty(backtests, params) ==
    LET run == _run_backtest(backtests, params)
    IN  IF run.raises THEN Penalty
        ELSE run.performance.sharpe_ratio

\* ParameterOptimizer._objective, after the parameters were suggested
_objective(backtests, params) ==
    LET run == _run_backtest(backtests, params)
    IN  IF run.raises THEN Penalty
        ELSE IF run.performance.num_trades < 5 THEN Penalty
        ELSE run.performance.sharpe_ratio

\* study.best_trial: the first trial among those of the highest value
BestTrial(trials) ==
    CHOOSE i \in 1..Len(trials) :
        /\ \A j \in 1..Len(trials) : trials[j].value <= trials[i].value
        /\ \A j \in 1..(i - 1) : trials[j].value < trials[i].value

\* what the backtest of a candidate can come to in the running search: what
\* it came to before in this search, or any outcome when it is the first
Outcomes(period) ==
    IF period \in DOMAIN search.backtests THEN {search.backtests[period]}
    ELSE BacktestOutcomes

\* ParameterOptimizer.optimize_strategy up to study.optimize: a new study.
\* An unknown strategy type raises in _suggest_parameters, outside the try of
\* _objective, and ends the search in its first trial.
StartStudy ==
    /\ search.phase # "running"
    /\ \E strategy_type \in {"rsi", "bogus"}, n_trials \in 1..MaxTrials :
        search' = [kind |-> "optimize_strategy", n_trials |-> n_trials,
                   backtests |-> <<>>, trials |-> <<>>,
                   phase |-> IF strategy_type = "bogus" THEN "raised" ELSE "running"]
    /\ UNCHANGED <<engineVars, trading_enabled, schedVars, ohlcv, evaluation, backtest>>

\* one trial of study.optimize: the sampler suggests the parameters, the
\* objective backtests them
RunTrial ==
    /\ search.kind = "optimize_strategy"
    /\ search.phase = "running"
    /\ Len(search.trials) < search.n_trials
    /\ \E period \in Periods :
        \E outcome \in Outcomes(period) :
            LET backtests == (period :> outcome) @@ search.backtests
            IN  search' = [search EXCEPT
                    !.backtests = backtests,
                    !.trials = Append(@, [params |-> [period |-> period],
                                          value |-> _objective(backtests,
                                                               [period |-> period])])]
    /\ UNCHANGED <<engineVars, trading_enabled, schedVars, ohlcv, evaluation, backtest>>

\* the value optimize_strategy returns for a study and the last backtest
StudyReport(trials, best, final) ==
    [best_params |-> best.params,
     sharpe_ratio |-> best.value,
     performance |-> final.performance,
     optimization_history |->
         [i \in 1..Len(trials) |->
            [trial |-> i - 1, value |-> trials[i].value, params |-> trials[i].params]]]

\* ParameterOptimizer.optimize_strategy after study.optimize: a last backtest
\* with the best parameters, outside any try, and the report
optimize_strategy ==
    /\ search.kind = "optimize_strategy"
    /\ search.phase = "running"
    /\ Len(search.trials) = search.n_trials
    /\ search' =
         IF _run_backtest(search.backtests,
                          search.trials[BestTrial(search.trials)].params).raises
         THEN [search EXCEPT !.phase = "raised"]
         ELSE [kind |-> "optimize_strategy", n_trials |-> search.n_trials,
               backtests |-> search.backtests, trials |-> search.trials,
               phase |-> "returned",
               returned |->
                   StudyReport(search.trials,
                               search.trials[BestTrial(search.trials)],
                               _run_backtest(search.backtests,
                                   search.trials[BestTrial(search.trials)].params))]
    /\ UNCHANGED <<engineVars, trading_enabled, schedVars, ohlcv, evaluation, backtest>>

\* the lists of values a caller passes as param_ranges["period"]
RECURSIVE Lists(_)
Lists(n) ==
    IF n = 0 THEN {<<>>}
    ELSE Lists(n - 1) \cup
         {Append(l, v) : l \in {k \in Lists(n - 1) : Len(k) = n - 1}, v \in Periods}

\* the row of "results" for one combination
ResultRow(period, result) ==
    [params |-> [period |-> period],
     return_pct |-> result.total_return_pct,
     sharpe_ratio |-> result.sharpe_ratio]

\* sorted(results, key=lambda x: x["return_pct"], reverse=True): stable
RECURSIVE SortedByReturn(_)
SortedByReturn(rows) ==
    IF rows = <<>> THEN <<>>
    ELSE LET top == CHOOSE i \in 1..Len(rows) :
                      /\ \A j \in 1..Len(rows) : rows[j].return_pct <= rows[i].return_pct
                      /\ \A j \in 1..(i - 1) : rows[j].return_pct < rows[i].return_pct
         IN  <<rows[top]>> \o
             SortedByReturn(SubSeq(rows, 1, top - 1) \o SubSeq(rows, top + 1, Len(rows)))

\* Backtester.optimize_parameters up to its loop: the combinations of the
\* grid; best_return starts below every return and best_result as None
StartGrid ==
    /\ search.phase # "running"
    /\ \E combinations \in Lists(MaxTrials) :
        search' = [kind |-> "optimize_parameters", combinations |-> combinations,
                   backtests |-> <<>>, results |-> <<>>, best |-> 0,
                   phase |-> "running"]
    /\ UNCHANGED <<engineVars, trading_enabled, schedVars, ohlcv, evaluation, backtest>>

\* one turn of the loop: the backtest of the next combination, whose
\* exception nothing catches; "best" is the row of the highest return so far
RunCombination ==
    /\ search.kind = "optimize_parameters"
    /\ search.phase = "running"
    /\ Len(search.results) < Len(search.combinations)
    /\ \E outcome \in Outcomes(search.combinations[Len(search.results) + 1]) :
        search' =
            IF outcome.raises
            THEN [search EXCEPT !.phase = "raised"]
            ELSE [search EXCEPT
                    !.backtests = (search.combinations[Len(search.results) + 1]
                                       :> outcome) @@ @,
                    !.results = Append(@,
                        ResultRow(search.combinations[Len(search.results) + 1], outcome)),
                    !.best = IF \/ search.best = 0
                                \/ outcome.total_return_pct
                                     > search.results[search.best].return_pct
                             THEN Len(search.results) + 1 ELSE @]
    /\ UNCHANGED <<engineVars, trading_enabled, schedVars, ohlcv, evaluation, backtest>>

\* Backtester.optimize_parameters after its loop: the value it returns.  With
\* no combination "found" is false: best_params and best_result are None and
\* best_return_pct is minus infinity, which the fields below stand in for.
optimize_parameters ==
    /\ search.kind = "optimize_parameters"
    /\ search.phase = "running"
    /\ Len(search.results) = Len(search.combinations)
    /\ search' =
         [kind |-> "optimize_parameters", combinations |-> search.combinations,
          backtests |-> search.backtests, results |-> search.results,
          best |-> search.best, phase |-> "returned",
          returned |->
              [found |-> search.best # 0,
               best_params |-> IF search.best = 0 THEN [period |-> 0]
                               ELSE search.results[search.best].params,
               best_return_pct |-> IF search.best = 0 THEN 0
                                   ELSE search.results[search.best].return_pct,
               best_result |-> IF search.best = 0 THEN Result(0, 0, 0)
                               ELSE search.backtests[search.combinations[search.best]],
               all_results |-> SortedByReturn(search.results)]]
    /\ UNCHANGED <<engineVars, trading_enabled, schedVars, ohlcv, evaluation, backtest>>

-----------------------------------------------------------------------------
(* Strategy administration (app/api/routes/web.py) *)

\* what the strategy form may submit
FormCoins == {"BTC", "ETH"}
FormTypes == {"rsi", "macd", "bogus"}
\* the session cookie resolves to a user, or to none
SessionUsers == {"ok", "None"}

\* the row create_strategy_unified inserts: enabled, owned by the session's
\* user, profit_target 5.0 and stop_loss 0.0 by default, no max_buy_amount
CreatedRow(coin, strategy_type) ==
    [StrategyRow(TRUE, "ok", "object", strategy_type, Num(5), Num(0), None)
        EXCEPT !.coin = coin]

\* the duplicate check: an enabled strategy of this coin and type exists
ExistingEnabled(table, coin, strategy_type) ==
    \E i \in 1..Len(table) :
        /\ table[i].coin = coin
        /\ table[i].strategy_type = strategy_type
        /\ table[i].enabled

\* the table without its i-th row
RemoveAt(table, i) ==
    SubSeq(table, 1, i - 1) \o SubSeq(table, i + 1, Len(table))

\* POST /strategy/create
create_strategy_unified ==
    \E user \in SessionUsers, coin \in FormCoins, strategy_type \in FormTypes :
        /\ Len(strategies) < MaxStrategies
        /\ strategies' =
              IF user = "None" THEN strategies
              ELSE IF strategy_type \notin KnownTypes THEN strategies
              ELSE IF ExistingEnabled(strategies, coin, strategy_type) THEN strategies
              ELSE Append(strategies, CreatedRow(coin, strategy_type))
        /\ UNCHANGED <<engineVars, trading_enabled, logs, cycle, sched, nticks, missed>>
        /\ UNCHANGED libVars

\* POST /strategy/toggle/{strategy_id}; a position of the table stands for
\* the id of the row at it, 0 for an id that no row has
toggle_strategy ==
    \E user \in SessionUsers, strategy_id \in 0..Len(strategies) :
        /\ strategies' =
              IF user = "None" \/ strategy_id = 0 THEN strategies
              ELSE [strategies EXCEPT ![strategy_id].enabled = ~@]
        /\ UNCHANGED <<engineVars, trading_enabled, logs, cycle, sched, nticks, missed>>
        /\ UNCHANGED libVars

\* POST /strategy/delete/{strategy_id}
delete_strategy ==
    \E user \in SessionUsers, strategy_id \in 0..Len(strategies) :
        /\ strategies' =
              IF user = "None" \/ strategy_id = 0 THEN strategies
              ELSE RemoveAt(strategies, strategy_id)
        /\ UNCHANGED <<engineVars, trading_enabled, logs, cycle, sched, nticks, missed>>
        /\ UNCHANGED libVars

-----------------------------------------------------------------------------
(* Specifications *)

InitEngine ==
    /\ orders = <<>>
    /\ trades = <<>>
    /\ balances = [c \in Coins |-> NoBalance]
    /\ trading_enabled \in BOOLEAN
    /\ lastCall = NoCall
    /\ ncalls = 0
    /\ nsubmits = 0
    /\ strategies = <<>>
    /\ logs = <<>>
    /\ cycle = [w \in Workers |-> IdleCycle]
    /\ sched = "none"
    /\ nticks = 0
    /\ missed = 0
    /\ ohlcv = NoData
    /\ evaluation = NoEvaluation
    /\ backtest = NoBacktest
    /\ search = NoSearch

NextEngine == BuyOrder \/ SellOrder

\* the engine alone, driven by arbitrary callers
SpecEngine == InitEngine /\ [][NextEngine]_vars

Init ==
    /\ orders = <<>>
    /\ trades = <<>>
    /\ balances = [c \in Coins |-> NoBalance]
    /\ trading_enabled \in BOOLEAN
    /\ lastCall = NoCall
    /\ ncalls = 0
    /\ nsubmits = 0
    /\ strategies \in StrategyTables
    /\ logs = <<>>
    /\ cycle = [w \in Workers |-> IdleCycle]
    /\ sched = "none"
    /\ nticks = 0
    /\ missed = 0
    /\ ohlcv = NoData
    /\ evaluation = NoEvaluation
    /\ backtest = NoBacktest
    /\ search = NoSearch

Next ==
    \/ Start
    \/ StopBegin
    \/ StopEnd
    \/ TickSkipped
    \/ \E w \in Workers : Tick(w)
    \/ \E w \in Workers : RiskStep(w)
    \/ \E w \in Workers : SignalStep(w)

\* the strategy table starts empty
InitConfig == InitEngine

NextConfig == create_strategy_unified \/ toggle_strategy \/ delete_strategy

\* the strategy administration alone, driven by arbitrary requests
SpecConfig == InitConfig /\ [][NextConfig]_vars

\* the Gateway has no history to return, or an empty one
InitSignals ==
    /\ orders = <<>>
    /\ trades = <<>>
    /\ balances = [c \in Coins |-> NoBalance]
    /\ trading_enabled = FALSE
    /\ lastCall = NoCall
    /\ ncalls = 0
    /\ nsubmits = 0
    /\ strategies = <<>>
    /\ logs = <<>>
    /\ cycle = [w \in Workers |-> IdleCycle]
    /\ sched = "none"
    /\ nticks = 0
    /\ missed = 0
    /\ ohlcv \in {NoData, DataFrame(<<>>)}
    /\ evaluation = NoEvaluation
    /\ backtest = NoBacktest
    /\ search = NoSearch

NextSignals == NewCandle \/ EvaluateSignals

\* the signal library alone, asked day after day
SpecSignals == InitSignals /\ [][NextSignals]_vars

NextBacktest == NewCandle \/ RunBacktest

\* the backtester alone, run over a history that grows day by day
SpecBacktest == InitSignals /\ [][NextBacktest]_vars

NextSearch ==
    \/ StartStudy \/ RunTrial \/ optimize_strategy
    \/ StartGrid \/ RunCombination \/ optimize_parameters

\* the two parameter searches alone
SpecSearch == InitSignals /\ [][NextSearch]_vars

\* the application: the scheduler drives the engine
Spec == Init /\ [][Next]_vars

-----------------------------------------------------------------------------
(* Claims about the TradingEngine, checked under SpecEngine *)

\* the latest step was an engine invocation
EngineStep == ncalls' = ncalls + 1
LastOrder == orders[Len(orders)]
LastTrade == trades[Len(trades)]
TradesOf(oid) == {t \in 1..Len(trades) : trades[t].order_id = oid}

\* C2: every invocation of execute_buy_order or execute_sell_order persists
\* exactly one Order row, whatever the outcome, the amount and the explicit
\* price: the number of Order rows equals the number of invocations.
C2_OneOrderPerInvocation == Len(orders) = ncalls

\* C4: when the Gateway submission fails or returns a malformed or absent
\* response, the Order is recorded as failed with the Gateway's error text
\* (a fixed text when the Gateway gave none), no Trade is appended and the
\* Balance of the coin is unchanged.
C4_GatewayFailure ==
    [][(EngineStep /\ lastCall'.submitted /\ ~IsSuccess(lastCall'.result)) =>
          /\ Len(orders') = Len(orders) + 1
          /\ SubSeq(orders', 1, Len(orders)) = orders
          /\ orders'[Len(orders')].status = "failed"
          /\ orders'[Len(orders')].error_message # "None"
          /\ (lastCall'.result.present /\ lastCall'.result.message # "None")
                => orders'[Len(orders')].error_message = lastCall'.result.message
          /\ trades' = trades
          /\ balances' = balances]_vars

\* C4 witness: after a completed order left a Trade and a Balance, a later
\* submission was refused by the Gateway with an error text.
C4_Witness ==
    /\ lastCall.submitted
    /\ lastCall.result.message = "insufficient funds"
    /\ Len(orders) >= 2
    /\ LastOrder.status = "failed"
    /\ LastOrder.error_message = "insufficient funds"
    /\ Len(trades) >= 1
    /\ balances[lastCall.coin].exists

FinalStatus(o) ==
    /\ o.status \in {"pending", "completed", "failed"}
    /\ o.status = "pending" => (~trading_enabled /\ o.error_message = "Trading is disabled")
    /\ o.status = "completed" => (trading_enabled /\ o.error_message = "None")
    /\ o.status = "failed" =>
          \/ o.error_message = "Failed to get current price"
          \/ trading_enabled /\ o.error_message # "None"

C6_OneTradePerCompletedOrder ==
    /\ \A i \in 1..Len(orders) :
          Cardinality(TradesOf(i)) = (IF orders[i].status = "completed" THEN 1 ELSE 0)
    /\ \A t \in 1..Len(trades) : trades[t].order_id \in 1..Len(orders)

\* C6 witness: two completed Orders and a failed one have been written.
C6_Witness ==
    /\ \E i, j \in 1..Len(orders) :
          i # j /\ orders[i].status = "completed" /\ orders[j].status = "completed"
    /\ \E k \in 1..Len(orders) : orders[k].status = "failed"
    /\ Len(trades) = 2

\* C7: the locally recorded total of every coin's Balance is never negative.
C7_TotalNeverNegative ==
    \A c \in Coins : balances[c].exists => Le(Num(0), balances[c].total)

\* the latest step completed an order of the given side
CompletedStep(side) ==
    /\ EngineStep
    /\ lastCall'.op = side
    /\ lastCall'.oid > 0
    /\ orders'[Len(orders')].status = "completed"

\* C8: the average cost is changed only by a completed buy, which sets it to
\* (old_total x old_avg + amount x price) / (old_total + amount); a completed
\* sell lowers total by the sold amount and leaves the average cost alone.
\* The division is stated as a product so that a zero total is a case of it.
C8_AverageCost ==
    [][\A c \in Coins :
         LET old == balances[c]
             new == balances'[c]
             o == orders'[Len(orders')]
         IN  IF CompletedStep("buy") /\ o.coin = c
             THEN /\ ~IsNone(new.avg_buy_price)
                  /\ Mul(new.avg_buy_price, Add(old.total, o.amount))
                       = Add(Mul(old.total, OrZero(old.avg_buy_price)),
                             Mul(o.amount, o.price))
             ELSE IF CompletedStep("sell") /\ o.coin = c
             THEN /\ new.total = Sub(old.total, o.amount)
                  /\ new.avg_buy_price = old.avg_buy_price
             ELSE new.avg_buy_price = old.avg_buy_price]_vars

\* C9 as stated: every completed sell has a profit equal to
\* (sell price - average cost before the sale) x amount.
C9_ProfitAlways ==
    [][CompletedStep("sell") =>
         LET o == orders'[Len(orders')]
             avg == balances[o.coin].avg_buy_price
         IN  /\ ~IsNone(avg)
             /\ trades'[Len(trades')].profit = Mul(Sub(o.price, avg), o.amount)]_vars

\* C9 amended: for a completed sell of a coin whose Balance has a non-zero
\* average cost before the sale, the Trade's profit is
\* (sell price - that average cost) x the Order's amount; when the coin has
\* no Balance row or no average cost, the Trade's profit is left empty.
C9_ProfitWhenCostKnown ==
    [][CompletedStep("sell") =>
         LET o == orders'[Len(orders')]
             b == balances[o.coin]
             t == trades'[Len(trades')]
         IN  /\ Len(trades') = Len(trades) + 1
             /\ t.order_id = Len(orders')
             /\ IF b.exists /\ Truthy(b.avg_buy_price)
                THEN t.profit = Mul(Sub(o.price, b.avg_buy_price), o.amount)
                ELSE IsNone(t.profit)]_vars

\* C9 witness: a sell at 6050 of coins bought at 100 recorded a profit.
C9_Witness ==
    /\ lastCall.op = "sell"
    /\ lastCall.oid > 0
    /\ LastOrder.status = "completed"
    /\ LastOrder.price = Num(6050)
    /\ Len(trades) >= 2
    /\ LastTrade.order_id = Len(orders)
    /\ ~IsNone(LastTrade.profit)
    /\ Lt(Num(0), LastTrade.profit)

\* C15: an invocation without explicit price whose price fetch fails writes
\* exactly one Order, failed, with the requested amount and the text
\* "Failed to get current price"; it submits nothing to the Gateway, appends
\* no Trade and leaves every Balance as it was, whether trading is enabled
\* or not.
C15_PriceFetchFailure ==
    [][(EngineStep /\ IsNone(lastCall'.price)) =>
          /\ orders' = Append(orders,
                 OrderRow(lastCall'.op, lastCall'.coin, lastCall'.amount, Num(0), Num(0),
                          "failed", "None", orders'[Len(orders')].strategy_id,
                          "Failed to get current price"))
          /\ lastCall'.oid = Len(orders')
          /\ ~lastCall'.submitted
          /\ nsubmits' = nsubmits
          /\ trades' = trades
          /\ balances' = balances]_vars

\* C15 witness: after a completed order left a Trade and a Balance, the
\* price fetch of a later invocation failed.
C15_Witness ==
    /\ lastCall.op # "none"
    /\ IsNone(lastCall.price)
    /\ LastOrder.error_message = "Failed to get current price"
    /\ Len(orders) >= 2
    /\ Len(trades) >= 1
    /\ nsubmits >= 1
    /\ balances[lastCall.coin].exists

\* C10: for an invocation with price p and requested amount a, the Order's
\* amount is (5500 x 1.10) / p with a notional of at least 5500 x 1.10 when
\* a x p < 5500, and a otherwise; it is never smaller than a.
C10_MinimumScaling ==
    (lastCall.oid > 0 /\ ~IsNone(lastCall.price)) =>
        LET o == orders[lastCall.oid]
            a == lastCall.amount
            p == lastCall.price
            floor == Mul(Num(MIN_ORDER_AMOUNT_KRW), BufferFactor)
        IN  /\ o.price = p
            /\ o.total = Mul(o.amount, p)
            /\ Lt(Mul(a, p), Num(MIN_ORDER_AMOUNT_KRW)) =>
                  (o.amount = Div(floor, p) /\ Le(floor, o.total))
            /\ ~Lt(Mul(a, p), Num(MIN_ORDER_AMOUNT_KRW)) => o.amount = a
            /\ Le(a, o.amount)

\* C10 witness: 1 coin at price 100 (notional 100) was scaled to 60.5 coins.
C10_Witness ==
    /\ lastCall.oid > 0
    /\ lastCall.amount = Num(1)
    /\ lastCall.price = Num(100)
    /\ orders[lastCall.oid].amount = <<121, 2>>
    /\ orders[lastCall.oid].total = Num(6050)

\* C29: while trading is disabled no engine invocation submits an order to
\* the Gateway, appends a Trade or changes a Balance row, and every
\* invocation with a known price records one Order, with status pending.
C29_DisabledNeverSubmits ==
    [][(EngineStep /\ ~trading_enabled) =>
          /\ nsubmits' = nsubmits
          /\ trades' = trades
          /\ balances' = balances
          /\ ~IsNone(lastCall'.price) =>
                /\ Len(orders') = Len(orders) + 1
                /\ orders'[Len(orders')].status = "pending"]_vars

-----------------------------------------------------------------------------
(* Claims about the TradingScheduler, checked under Spec *)

\* the log rows the latest run of a worker wrote for a strategy
LogsOf(w, sid) ==
    {i \in (cycle[w].logStart + 1)..Len(logs) : logs[i].strategy_id = sid}

\* C1: when a run of run_strategy_checks has returned, every strategy that
\* was enabled in it has exactly one row in the execution log written by
\* that run: never none and never two.
C1_OneLogPerConfig ==
    \A w \in Workers :
        cycle[w].phase = "finished" =>
            \A k \in 1..Len(EnabledList) :
                Cardinality(LogsOf(w, EnabledList[k])) = 1

\* a worker's iteration of the signal pass happens in this step
SignalStepOf(w) == cycle[w].phase = "signal" /\ cycle'[w] # cycle[w]
\* the strategy a worker is positioned at
CurrentId(w) == EnabledList[cycle[w].idx]
\* the latest row of the execution log after this step
NewLog == logs'[Len(logs')]

\* C11: in the signal pass, a buy signal for a strategy with a budget never
\* creates an Order whose notional, added to the notional of the strategy's
\* completed buy Orders, exceeds the budget; and a "limit reached" log row is
\* a non-executed buy row written without an engine call or an Order.
C11_BudgetSkip ==
    [][\A w \in Workers :
         (SignalStepOf(w) /\ Truthy(strategies[CurrentId(w)].max_buy_amount)
            /\ Len(logs') = Len(logs) + 1 /\ NewLog.signal = "buy") =>
             LET sid == CurrentId(w)
                 budget == strategies[sid].max_buy_amount
             IN  /\ Len(orders') > Len(orders) =>
                       Le(Add(total_invested(sid), orders'[Len(orders')].total), budget)
                 /\ NewLog.message = "Buy order skipped: max buy amount limit reached" =>
                       (~NewLog.executed /\ ncalls' = ncalls /\ orders' = orders)]_vars

\* C12: when a run has returned, every strategy whose evaluation raised an
\* exception in it (in the risk pass or in the signal pass) has a row with
\* the error text in the execution log written by that run, and the run has
\* gone through all the enabled strategies.
C12_ExceptionLogged ==
    \A w \in Workers :
        cycle[w].phase = "finished" =>
            \A sid \in cycle[w].raised :
                \E i \in LogsOf(w, sid) : logs[i].error # "None"

\* a worker's iteration of either pass happens in this step
CycleStepOf(w) == cycle[w].phase \in {"risk", "signal"} /\ cycle'[w] # cycle[w]

\* C13: a strategy whose owner has no API credentials never gets an Order;
\* the iterations of both passes over it call no engine, submit nothing and
\* write no Order; and a run that has returned has written exactly one log
\* row for it, not executed, without order, carrying the explanation.
C13_NoCredentials ==
    /\ [](\A i \in 1..Len(orders) : strategies[orders[i].strategy_id].owner # "nocreds")
    /\ [](\A w \in Workers : cycle[w].phase = "finished" =>
             \A k \in 1..Len(EnabledList) :
                 strategies[EnabledList[k]].owner = "nocreds" =>
                     /\ Cardinality(LogsOf(w, EnabledList[k])) = 1
                     /\ \A i \in LogsOf(w, EnabledList[k]) :
                            /\ ~logs[i].executed
                            /\ logs[i].order_id = 0
                            /\ logs[i].error = "no API credentials configured")
    /\ [][\A w \in Workers :
            (CycleStepOf(w) /\ strategies[CurrentId(w)].owner = "nocreds") =>
                /\ ncalls' = ncalls
                /\ nsubmits' = nsubmits
                /\ orders' = orders
                /\ trades' = trades
                /\ balances' = balances]_vars

\* C13 witness: a run has returned in which the strategy without credentials
\* got its row while another strategy of the same run got an Order.
C13_Witness ==
    \E w \in Workers :
        /\ cycle[w].phase = "finished"
        /\ \E k \in 1..Len(EnabledList) :
              /\ strategies[EnabledList[k]].owner = "nocreds"
              /\ \E i \in LogsOf(w, EnabledList[k]) :
                    logs[i].error = "no API credentials configured"
        /\ Len(orders) > 0
        /\ nsubmits > 0

\* a strategy of an owner with credentials whose parameters do not parse, or
\* whose strategy_type is none of the known ones
ConfigError(s) ==
    s.owner = "ok" /\ (s.parameters = "badjson" \/ s.strategy_type \notin KnownTypes)

\* C14: a strategy with a configuration error never gets an Order, and a
\* run that has returned has written a log row for it (the logged skip).
C14_ConfigErrorLogged ==
    /\ \A i \in 1..Len(orders) : ~ConfigError(strategies[orders[i].strategy_id])
    /\ \A w \in Workers : cycle[w].phase = "finished" =>
          \A k \in 1..Len(EnabledList) :
              ConfigError(strategies[EnabledList[k]]) => LogsOf(w, EnabledList[k]) # {}

\* the part of C16 that is about stopping alone: stop() does not return
\* while a run is in progress; a run in progress is never dropped or
\* restarted, each of its steps moving it forward in its passes; and from the
\* call of stop() until the next start() no run starts.
C16_StopWaits ==
    /\ [](sched = "stopped" => Running = {})
    /\ [][\A w \in Running :
            \/ cycle'[w] = cycle[w]
            \/ /\ cycle'[w].logStart = cycle[w].logStart
               /\ cycle'[w].phase \in {"risk", "signal", "finished"}
               /\ cycle'[w].phase = cycle[w].phase => cycle'[w].idx = cycle[w].idx + 1
               /\ cycle'[w].phase = "risk" => cycle[w].phase = "risk"
               /\ cycle'[w].phase = "finished" =>
                     (cycle[w].phase = "signal" /\ cycle[w].idx = Len(EnabledList))]_vars
    /\ [][sched # "running" =>
            \A w \in Workers \ Running : cycle'[w] = cycle[w]]_vars

\* C16: stopping is clean: C16_StopWaits, and once stop() has returned, the
\* run that was in progress when it was called has evaluated and logged every
\* enabled strategy.
C16_CleanStop ==
    /\ C16_StopWaits
    /\ [](sched = "stopped" =>
             \A w \in Workers : cycle[w].phase = "finished" =>
                 \A k \in 1..Len(EnabledList) : LogsOf(w, EnabledList[k]) # {})

\* the messages of the log rows of a risk-triggered sell
RiskMessages == {"Profit target sell order", "Stop loss sell order"}
\* the latest run of a worker has sold for this strategy in its risk pass
RiskSold(w, sid) == \E i \in LogsOf(w, sid) : logs[i].message \in RiskMessages
\* the Orders the latest run of a worker has logged for a strategy
OrdersOf(w, sid) == {logs[i].order_id : i \in LogsOf(w, sid)} \ {0}

\* C22: in a run the signal pass starts only after the risk pass; the signal
\* pass does not evaluate a strategy for which the risk pass of the same run
\* submitted a profit-target or stop-loss sell (no engine call, no log row);
\* hence a run creates at most one Order per strategy.
C22_RiskSuppressesSignal ==
    /\ [][\A w \in Workers :
            (cycle'[w].phase = "signal" /\ cycle[w].phase # "signal") =>
                cycle[w].phase = "risk"]_vars
    /\ [][\A w \in Workers :
            (SignalStepOf(w) /\ RiskSold(w, CurrentId(w))) =>
                (ncalls' = ncalls /\ logs' = logs)]_vars
    /\ [](\A w \in Workers : \A sid \in 1..Len(strategies) :
             Cardinality(OrdersOf(w, sid)) <= 1)

\* a worker's iteration of the risk pass happens in this step
RiskStepOf(w) == cycle[w].phase = "risk" /\ cycle'[w] # cycle[w]
\* the average cost the risk pass works with: the Gateway's when it reports
\* holdings and a cost, else the local Balance row's, else none
AverageCost(balance_data, local) ==
    IF Lt(Num(0), balance_data.total) /\ Truthy(balance_data.avg_buy_price)
    THEN balance_data.avg_buy_price
    ELSE IF local.exists /\ Lt(Num(0), local.total) /\ Truthy(local.avg_buy_price)
    THEN local.avg_buy_price
    ELSE None
\* (current - avg_cost) / avg_cost x 100
ProfitPercent(current, avg_cost) == Mul(Div(Sub(current, avg_cost), avg_cost), Num(100))
\* profit% >= profit_target, or stop_loss > 0 and profit% <= -stop_loss
Triggered(s, pct) ==
    \/ Truthy(s.profit_target) /\ Le(s.profit_target, pct)
    \/ Truthy(s.stop_loss) /\ Lt(Num(0), s.stop_loss) /\ Le(pct, Neg(s.stop_loss))

\* C23: an iteration of the risk pass over an enabled strategy with
\* well-formed parameters, holdings, a known average cost and a fetched
\* price calls the engine for a sell iff profit% >= profit_target, or
\* stop_loss > 0 and profit% <= -stop_loss; when it does it writes exactly
\* one log row, a sell row of that strategy.  For a strategy with neither
\* threshold the iteration asks the Gateway nothing, calls no engine, writes
\* no Order and no log row.
C23_RiskSellIff ==
    [][\A w \in Workers :
         (RiskStepOf(w) /\ strategies[CurrentId(w)].owner = "ok"
            /\ strategies[CurrentId(w)].parameters = "object") =>
             LET sid == CurrentId(w)
                 s == strategies[sid]
                 seen == cycle'[w].observed
                 avg_cost == AverageCost(seen.balance_data, balances[s.coin])
                 sold == ncalls' = ncalls + 1 /\ lastCall'.op = "sell"
             IN  /\ (~Truthy(s.profit_target) /\ ~Truthy(s.stop_loss)) =>
                       /\ ~seen.made
                       /\ ncalls' = ncalls /\ nsubmits' = nsubmits
                       /\ orders' = orders /\ logs' = logs
                 /\ (seen.made /\ ~IsNone(avg_cost) /\ Truthy(seen.current_price)) =>
                       /\ sold <=> Triggered(s, ProfitPercent(seen.current_price, avg_cost))
                       /\ sold => /\ Len(logs') = Len(logs) + 1
                                  /\ NewLog.strategy_id = sid
                                  /\ NewLog.signal = "sell"
                 /\ ~sold => (ncalls' = ncalls /\ logs' = logs)]_vars

\* C23 witness: a run has sold on a stop loss (the Order completed), and the
\* risk pass of a later run has read cost and price and left the holding
\* alone
C23_Witness ==
    /\ \E i \in 1..Len(logs) : logs[i].message = "Stop loss sell order" /\ logs[i].executed
    /\ \E w \in Workers :
          /\ cycle[w].observed.made
          /\ Truthy(cycle[w].observed.current_price)
          /\ Len(logs) = cycle[w].logStart

\* the holdings a risk-triggered sell is to sell: the Gateway's available
\* amount when the Gateway reports holdings and a cost, else the holdings of
\* the local Balance row
AvailableHoldings(balance_data, local) ==
    IF Lt(Num(0), balance_data.total) /\ Truthy(balance_data.avg_buy_price)
    THEN balance_data.available
    ELSE local.available

\* C24: the Order written by a risk-triggered sell is a sell Order whose
\* amount is the full available holdings of the coin (the Gateway's
\* available amount, or the local row's holdings when the pass fell back to
\* it), and so never more than the holdings.
C24_RiskSellsHoldings ==
    [][\A w \in Workers :
         (RiskStepOf(w) /\ Len(orders') = Len(orders) + 1) =>
             LET s == strategies[CurrentId(w)]
                 holdings == AvailableHoldings(cycle'[w].observed.balance_data,
                                               balances[s.coin])
                 order == orders'[Len(orders')]
             IN  /\ order.order_type = "sell"
                 /\ order.amount = holdings
                 /\ Le(order.amount, holdings)]_vars

\* C25: for every strategy with a maximum cumulative buy budget, the sum
\* of the notional of its completed buy Orders never exceeds the budget.
C25_BudgetNeverExceeded ==
    \A sid \in 1..Len(strategies) :
        Truthy(strategies[sid].max_buy_amount) =>
            Le(InvestedFrom(orders, sid, 1), strategies[sid].max_buy_amount)

\* the part of C29 that is about the control loop: with trading disabled
\* the runs of the scheduler submit nothing, write no Trade, leave the
\* Balance rows alone, write only pending Orders (failed ones when no price
\* could be fetched), and log every one of them with executed = false.
C29_DisabledInLoop ==
    ~trading_enabled =>
        /\ nsubmits = 0
        /\ trades = <<>>
        /\ \A c \in Coins : balances[c] = NoBalance
        /\ \A i \in 1..Len(orders) :
              \/ orders[i].status = "pending"
              \/ orders[i].status = "failed"
                    /\ orders[i].error_message = "Failed to get current price"
        /\ \A i \in 1..Len(logs) : ~logs[i].executed
        /\ \A i \in 1..Len(orders) :
              \E j \in 1..Len(logs) : logs[j].order_id = i

\* C30: a log row has executed = true only if it carries the id of an
\* existing Order of the same strategy whose status is completed; a row
\* without Order, or whose Order is failed or pending, has executed = false.
C30_ExecutedMeansCompleted ==
    \A i \in 1..Len(logs) :
        LET oid == logs[i].order_id
        IN  /\ logs[i].executed =>
                  /\ oid \in 1..Len(orders)
                  /\ orders[oid].strategy_id = logs[i].strategy_id
                  /\ orders[oid].status = "completed"
            /\ (oid = 0 \/ (oid \in 1..Len(orders) /\ orders[oid].status # "completed")) =>
                  ~logs[i].executed

\* C30 witness: the log holds an executed row, a row of a failed Order and
\* a row without Order
C30_Witness ==
    /\ \E i \in 1..Len(logs) : logs[i].executed
    /\ \E i \in 1..Len(logs) :
          logs[i].order_id # 0 /\ orders[logs[i].order_id].status = "failed"
    /\ \E i \in 1..Len(logs) : logs[i].order_id = 0

\* C3: at no time are two executions of run_strategy_checks in progress.
C3_SingleFlight == Cardinality(Running) <= 1

\* C3 witness: the trigger fired while a run was inside its signal pass, and
\* that firing was skipped.
C3_Witness ==
    /\ missed > 0
    /\ \E w \in Workers : cycle[w].phase = "signal" /\ cycle[w].idx > 1
    /\ Cardinality(Running) = 1

-----------------------------------------------------------------------------
(* Claims about the strategy administration, checked under SpecConfig *)

\* C17: no two enabled strategies have the same coin and the same
\* strategy_type.
C17_OneEnabledPerPair ==
    \A i, j \in 1..Len(strategies) :
        (i # j /\ strategies[i].enabled /\ strategies[j].enabled) =>
            \/ strategies[i].coin # strategies[j].coin
            \/ strategies[i].strategy_type # strategies[j].strategy_type

-----------------------------------------------------------------------------
(* Claims about the signal library, checked under SpecSignals *)

\* the number of candles a strategy needs before it can tell a signal: the
\* indicator of today and the one of yesterday
RequiredLookback(st) ==
    CASE st.kind = "moving_average" ->
            (IF st.short_period > st.long_period THEN st.short_period
                                                 ELSE st.long_period) + 1
      [] st.kind = "rsi" -> st.period + 1
      [] st.kind = "bollinger" -> st.period + 1
      [] st.kind = "macd" -> st.slow_period + st.signal_period
      [] st.kind = "stochastic" -> st.k_period + st.d_period

\* C18: a strategy evaluated on an absent history, or on one with fewer
\* candles than it needs, answers false to should_buy and to should_sell
\* (the calculation returning None, never raising).
C18_InsufficientHistory ==
    (evaluation.strategy.kind # "none"
       /\ (~evaluation.df.present
             \/ Len(evaluation.df.rows) < RequiredLookback(evaluation.strategy))) =>
        (~evaluation.buy /\ ~evaluation.sell)

\* C18 witness: the RSI strategy of period 2 was asked on two candles, the
\* second lower than the first (an RSI of 0 had there been enough of them).
C18_Witness ==
    /\ evaluation.strategy.kind = "rsi"
    /\ evaluation.df.present
    /\ Len(evaluation.df.rows) = 2
    /\ evaluation.df.rows[2].close < evaluation.df.rows[1].close
    /\ ~evaluation.buy

\* the sum of the closes of the window of the given length that ends at row t
RECURSIVE CloseSum(_, _, _)
CloseSum(rows, t, length) ==
    IF length = 0 THEN 0 ELSE rows[t].close + CloseSum(rows, t - 1, length - 1)

\* short-MA(t) > long-MA(t), as a comparison of sums
ShortAbove(st, rows, t) ==
    st.long_period * CloseSum(rows, t, st.short_period)
        > st.short_period * CloseSum(rows, t, st.long_period)
ShortBelow(st, rows, t) ==
    st.long_period * CloseSum(rows, t, st.short_period)
        < st.short_period * CloseSum(rows, t, st.long_period)

\* C19: on a history of at least long_period + 1 candles,
\* MovingAverageStrategy.should_buy is true exactly when the short average
\* was not above the long one yesterday and is above it today, and
\* should_sell exactly when it was not below yesterday and is below today.
C19_Crossover ==
    LET st == evaluation.strategy
        rows == evaluation.df.rows
        t == Len(rows)
    IN  (st.kind = "moving_average" /\ evaluation.df.present /\ t >= st.long_period + 1) =>
            /\ evaluation.buy <=> (~ShortAbove(st, rows, t - 1) /\ ShortAbove(st, rows, t))
            /\ evaluation.sell <=> (~ShortBelow(st, rows, t - 1) /\ ShortBelow(st, rows, t))

\* C19 witness: the short average was already above the long one yesterday
\* and still is today, and should_buy said no.
C19_Witness ==
    LET st == evaluation.strategy
        rows == evaluation.df.rows
        t == Len(rows)
    IN  /\ st.kind = "moving_average"
        /\ evaluation.df.present
        /\ t >= st.long_period + 1
        /\ ShortAbove(st, rows, t - 1)
        /\ ShortAbove(st, rows, t)
        /\ ~evaluation.buy

-----------------------------------------------------------------------------
(* Claims about the backtester, checked under SpecBacktest *)

PortfolioAfter(k) ==
    LET inputs == backtest.inputs
        history == backtest.history
        df == tail(history.rows, inputs.days)
        first == Len(history.rows) - Len(df) + 1
        start == [krw_balance |-> inputs.initial_balance, coin_balance |-> Num(0),
                  position |-> NoPosition, equity_values |-> <<>>,
                  result |-> BacktestResult]
    IN  Simulate(start, 0, SubSeq(df, 1, k), first,
                 should_buy(inputs.strategy, history),
                 should_sell(inputs.strategy, history),
                 inputs.strategy, inputs.trade_amount_pct, inputs.fee_rate)

\* buy, sell, buy, ...: a buy at the odd places, a sell at the even ones
Alternates(ledger) ==
    \A n \in 1..Len(ledger) :
        ledger[n].type = (IF n % 2 = 1 THEN "buy" ELSE "sell")

\* a position is open exactly after an odd number of trades, coins are held
\* exactly while it is open, and neither balance is negative
SinglePosition(portfolio) ==
    /\ Alternates(portfolio.result.trades)
    /\ portfolio.position.open <=> Len(portfolio.result.trades) % 2 = 1
    /\ portfolio.position.open <=> Lt(Num(0), portfolio.coin_balance)
    /\ Le(Num(0), portfolio.krw_balance)
    /\ Le(Num(0), portfolio.coin_balance)

\* C26: at every step of run_backtest at most one position is open: the
\* ledger alternates buy, sell, buy, ... from a buy, a position is open
\* exactly between a buy and the next sell, and the simulated cash and coin
\* balances are never negative (for a trade percentage in (0, 100] and a fee
\* rate in [0, 1)).
C26_SinglePosition ==
    (backtest.ran /\ backtest.history.present) =>
        /\ Alternates(backtest.result.trades)
        /\ \A k \in 0..Len(tail(backtest.history.rows, backtest.inputs.days)) :
              SinglePosition(PortfolioAfter(k))

\* C26 witness: a run bought with half of its cash, held the position over a
\* candle and sold it
C26_Witness ==
    /\ backtest.ran
    /\ Len(backtest.result.trades) = 2
    /\ backtest.result.trades[1].type = "buy"
    /\ backtest.result.trades[2].type = "sell"
    /\ Lt(Num(0), backtest.result.trades[1].total)

\* the trades of a ledger decided at the candles before date n
DecidedBefore(ledger, n) == SelectSeq(ledger, LAMBDA t : t.date < n)

\* the latest run, over a history whose last candle is c instead
RerunWithLast(c) ==
    LET rows == backtest.history.rows
        inputs == backtest.inputs
    IN  run_backtest(inputs.strategy,
                     DataFrame(Append(SubSeq(rows, 1, Len(rows) - 1), c)),
                     inputs.initial_balance, inputs.trade_amount_pct, inputs.days,
                     inputs.fee_rate)

\* C27: the replay has no look-ahead: the decision taken at a candle depends
\* on the candles up to it only, so a run over a history that differs in its
\* last candle alone takes the same decisions at all the candles before it.
C27_NoLookAhead ==
    (backtest.ran /\ backtest.history.present /\ Len(backtest.history.rows) > 0) =>
        \A c \in Candles :
            DecidedBefore(RerunWithLast(c).trades, Len(backtest.history.rows))
                = DecidedBefore(backtest.result.trades, Len(backtest.history.rows))

-----------------------------------------------------------------------------
(* Claims about the parameter searches *)

\* the scores of the candidates a finished search lists, in the order of its list
Scores(s) ==
    IF s.kind = "optimize_strategy"
    THEN [i \in 1..Len(s.returned.optimization_history) |->
            s.returned.optimization_history[i].value]
    ELSE [i \in 1..Len(s.returned.all_results) |->
            s.returned.all_results[i].sharpe_ratio]

\* the score of the candidate a finished search returns as best
BestScore(s) ==
    IF s.kind = "optimize_strategy" THEN s.returned.sharpe_ratio
    ELSE s.returned.best_result.sharpe_ratio

\* a search that returned, having evaluated a candidate
Returned(s) ==
    /\ s.kind # "none"
    /\ s.phase = "returned"
    /\ Scores(s) # <<>>

\* C21: a search that returns gives as best a candidate of the highest
\* Sharpe-like score among those it evaluated, and lists the evaluated
\* candidates from the highest score to the lowest.
C21_BestAndRanking ==
    Returned(search) =>
        /\ Len(Scores(search)) = Len(IF search.kind = "optimize_strategy"
                                     THEN search.trials ELSE search.results)
        /\ \A i \in 1..Len(Scores(search)) : Scores(search)[i] <= BestScore(search)
        /\ \A i, j \in 1..Len(Scores(search)) :
            i < j => Scores(search)[i] >= Scores(search)[j]

\* the part of C21 that the Optuna search keeps: no trial has a higher value
\* than the one returned as best
C21_StudyBestIsMaximal ==
    (Returned(search) /\ search.kind = "optimize_strategy") =>
        \A i \in 1..Len(search.trials) :
            search.trials[i].value <= search.returned.sharpe_ratio

\* the backtest of trial i of the study failed or closed fewer than 5 trades
Failing(s, i) ==
    \/ s.backtests[s.trials[i].params.period].raises
    \/ s.backtests[s.trials[i].params.period].total_trades < 5

\* C28: in the calibration search, a trial whose backtest raised or closed
\* fewer than 5 trades has the penalty as its value, and a search that had
\* such a trial has still run all the trials of its budget when it ends.
C28_FailingTrialsArePenalised ==
    search.kind = "optimize_strategy" =>
        /\ \A i \in 1..Len(search.trials) :
            Failing(search, i) => search.trials[i].value = Penalty
        /\ (search.phase # "running" /\ \E i \in 1..Len(search.trials) : Failing(search, i))
               => Len(search.trials) = search.n_trials

\* a search of three trials returned: the backtest of the first raised, that
\* of the second closed 4 trades, the third has its Sharpe ratio as value
C28_Witness ==
    /\ search.kind = "optimize_strategy"
    /\ search.phase = "returned"
    /\ search.n_trials = 3
    /\ Len(search.trials) = 3
    /\ search.backtests[search.trials[1].params.period].raises
    /\ search.trials[1].value = Penalty
    /\ ~search.backtests[search.trials[2].params.period].raises
    /\ search.backtests[search.trials[2].params.period].total_trades = 4
    /\ search.trials[2].value = Penalty
    /\ ~search.backtests[search.trials[3].params.period].raises
    /\ search.backtests[search.trials[3].params.period].total_trades >= 5
    /\ search.trials[3].value = search.backtests[search.trials[3].params.period].sharpe_ratio
    /\ search.returned.best_params = search.trials[3].params

====
